---- MODULE Spec2Model ----
(***************************************************************************)
(* A model of the css-kustomize Dagger pipeline                            *)
(* (src/dagger_pipeline/pipeline.py, src/dagger_pipeline/main.py).         *)
(*                                                                         *)
(* The module holds several specifications over disjoint groups of         *)
(* variables; each one leaves the other groups at their idle values:       *)
(*   SpecVersion  Pipeline._validate_version_format on bounded strings     *)
(*   SpecSec      security_scan / security_scan_generated and the per-     *)
(*                manifest _check_security_issues                          *)
(***************************************************************************)
EXTENDS Integers, Sequences, FiniteSets, TLC

VARIABLES
    version,        \* the string handed to _validate_version_format
    verdict         \* "none" before the call, then "accepted" / "rejected"

versionVars == <<version, verdict>>

VARIABLES
    secOp,            \* "security_scan" or "security_scan_generated"
    secDirExists,     \* overlays/ (security_scan) or output_dir (generated) exists
    manifests,        \* the manifest texts the loop meets, in iteration order
    secIdx,           \* index of the next manifest of the loop
    security_issues,  \* the running sum of the operation
    counts,           \* what _check_security_issues returned, per manifest
    warned,           \* whether the runAsNonRoot warning was printed, per manifest
    secOutcome        \* "running", "passed", "raised_no_dir", "raised_issues",
                      \* "raised_build"

secVars == <<secOp, secDirExists, manifests, secIdx, security_issues, counts,
             warned, secOutcome>>

VARIABLES
    cmd,                \* the CLI command of the run
    lintFlags,          \* the --*-only flags given to lint / lint-parallel
    overlayOpt,         \* --overlay: 0 when not given, else the overlay name
    dryRun,             \* --dry-run of version update
    overlaysDirExists,  \* project_root / "overlays" exists
    entries,            \* per name: "absent", "dir" or "file" in overlays/
    checkFails,         \* the checks that fail in this run
    outDirExists,       \* the output directory exists
    outFiles,           \* per file key: <<"absent">>, <<"old">>, <<"built", o>>
    outDirExists0,      \* outDirExists when the command started
    outFiles0,          \* outFiles when the command started
    buildCalls,         \* container calls started by generate_overlay
    pc,                 \* where the run_* coroutine stands
    todo,               \* the checks the sequential linting has yet to run
    ran,                \* the checks the sequential linting has started
    pending,            \* the overlays the sequential loop has yet to build
    tasks,              \* the tasks handed to asyncio.gather, with their state
    printed,            \* the messages printed so far
    error,              \* the error that reached the CLI, or "none"
    exitCode            \* -1 while running, then the exit status 0 or 1

runVars == <<cmd, lintFlags, overlayOpt, dryRun, overlaysDirExists, entries,
             checkFails, outDirExists, outFiles, outDirExists0, outFiles0,
             buildCalls, pc, todo, ran, pending, tasks, printed, error,
             exitCode>>

VARIABLES
    op,           \* the pipeline operation that is run
    opOverlays,   \* the number of overlay subdirectories it meets
    optA,         \* dry_run / markdown files exist / version is None
    optB,         \* set_default
    opPc,         \* index of the operation's next external call
    failedCalls,  \* the indices of the calls that exited non-zero
    opIssues,     \* issues collected by validate_version_consistency
    opOutcome     \* "running", "returned" or "raised"

opsVars == <<op, opOverlays, optA, optB, opPc, failedCalls, opIssues,
             opOutcome>>

VARIABLES
    updAll,          \* update_all_versions (TRUE) or update_overlay_version
    updTarget,       \* the overlay of update_overlay_version (0 with updAll)
    updVersion,      \* the version argument
    updDry,          \* dry_run
    updOverlaysDir,  \* project_root / "overlays" exists
    updEntries,      \* per name: "absent", "dir" or "file" in overlays/
    hostFiles,       \* per overlay: its kustomization.yaml on the host
    hostFiles0,      \* hostFiles when the operation started
    updQueue,        \* the overlays update_all_versions has yet to update
    updCur,          \* the overlay being updated, 0 before the first
    updPc,           \* where the operation stands
    ctrFile,         \* the kustomization.yaml in `container`
    derived,         \* the kustomization.yaml in the last derived container
    calls,           \* the yq calls made for the overlay being updated
    writes,          \* per overlay: the number of writes of its host file
    containers,      \* the number of containers started
    updOutcome,      \* "running", "returned" or "raised"
    updPrinted,      \* the messages printed
    updRun,          \* the number of the application under way (1, 2, ...)
    hostFiles1,      \* hostFiles when the application under way started
    branches         \* the patch call of each completed patch step

updVars == <<updAll, updTarget, updVersion, updDry, updOverlaysDir, updEntries,
             hostFiles, hostFiles0, updQueue, updCur, updPc, ctrFile, derived,
             calls, writes, containers, updOutcome, updPrinted, updRun,
             hostFiles1, branches>>

VARIABLES
    valDirExists,              \* project_root / "overlays" exists
    valEntries,                \* what iterdir() yields, in its order
    valPoetry,                 \* stdout of `poetry version --short`, or Fail
    valPc,                     \* where validate_version_consistency stands
    valIdx,                    \* index of the entry of the loop
    expected_project_version,  \* the result of _get_project_version
    image_tag,                 \* image_tag of the current iteration
    version_label,             \* version_label of the current iteration
    issues,                    \* the issues list
    valOutcome,                \* "running", "passed", "raised_call" or
                               \* "raised_issues"
    valCount                   \* the N of "Found N version consistency issues"

valVars == <<valDirExists, valEntries, valPoetry, valPc, valIdx,
             expected_project_version, image_tag, version_label, issues,
             valOutcome, valCount>>

VARIABLES
    docVersion,     \* the version argument of deploy_docs, or None
    docTitle,       \* the title argument, or None
    docAlias,       \* the alias argument
    docSetDefault,  \* set_default
    docPoetry,      \* stdout of `poetry version --short`, or Fail
    docPc,          \* where deploy_docs stands
    docIssued,      \* the mike commands issued, in order
    docFailed,      \* the indices of the issued commands that failed
    docPrinted,     \* the messages printed
    docOutcome      \* "running", "returned" or "raised"

docVars == <<docVersion, docTitle, docAlias, docSetDefault, docPoetry, docPc,
             docIssued, docFailed, docPrinted, docOutcome>>

vars == <<versionVars, secVars, runVars, opsVars, updVars, valVars, docVars>>

(***************************************************************************)
(* Bounds                                                                  *)
(***************************************************************************)
MaxVerLen == 7
MaxManifestLen == 5
MaxManifests == 2
MaxOverlays == 2
MaxRuns == 2

SeqsUpTo(S, n) == UNION {[1..k -> S] : k \in 0..n}

Names == 1..MaxOverlays

\* Names of files in the output directory: <name>.yaml for each overlay
\* name, and 0 for a file that belongs to no overlay.
FileKeys == 0..MaxOverlays


(***************************************************************************)
(* The value of each group of variables while its operations are not run.  *)
(***************************************************************************)
IdleVersion == version = <<>> /\ verdict = "none"

IdleSec ==
    /\ secOp = "none" /\ secDirExists = FALSE /\ manifests = <<>> /\ secIdx = 1
    /\ security_issues = 0 /\ counts = <<>> /\ warned = <<>>
    /\ secOutcome = "idle"

IdleUpd ==
    /\ updAll = FALSE /\ updTarget = 0 /\ updVersion = "none" /\ updDry = FALSE
    /\ updOverlaysDir = FALSE /\ updEntries = <<>> /\ hostFiles = <<>>
    /\ hostFiles0 = <<>> /\ updQueue = {} /\ updCur = 0 /\ updPc = "idle"
    /\ ctrFile = <<>> /\ derived = <<>> /\ calls = <<>> /\ writes = <<>>
    /\ containers = 0 /\ updOutcome = "idle" /\ updPrinted = {}
    /\ updRun = 0 /\ hostFiles1 = <<>> /\ branches = <<>>

IdleVal ==
    /\ valDirExists = FALSE /\ valEntries = <<>> /\ valPoetry = <<>>
    /\ valPc = "idle" /\ valIdx = 0 /\ expected_project_version = <<>>
    /\ image_tag = <<>> /\ version_label = <<>> /\ issues = <<>>
    /\ valOutcome = "idle" /\ valCount = 0

IdleDocs ==
    /\ docVersion = <<>> /\ docTitle = <<>> /\ docAlias = "none"
    /\ docSetDefault = FALSE /\ docPoetry = <<>> /\ docPc = "idle"
    /\ docIssued = <<>> /\ docFailed = {} /\ docPrinted = {}
    /\ docOutcome = "idle"

IdleOps ==
    /\ op = "none" /\ opOverlays = 0 /\ optA = FALSE /\ optB = FALSE
    /\ opPc = 1 /\ failedCalls = {} /\ opIssues = 0 /\ opOutcome = "idle"

IdleRun ==
    /\ cmd = "none" /\ lintFlags = {} /\ overlayOpt = 0 /\ dryRun = FALSE
    /\ overlaysDirExists = FALSE /\ entries = [n \in Names |-> "absent"]
    /\ checkFails = {}
    /\ outDirExists = FALSE /\ outFiles = [k \in FileKeys |-> <<"absent">>]
    /\ outDirExists0 = FALSE /\ outFiles0 = [k \in FileKeys |-> <<"absent">>]
    /\ buildCalls = 0 /\ pc = "idle" /\ todo = <<>> /\ ran = <<>>
    /\ pending = {} /\ tasks = <<>> /\ printed = {} /\ error = "none"
    /\ exitCode = -1


(***************************************************************************)
(* _validate_version_format: re.match of                                   *)
(*     ^[0-9]+\.[0-9]+\.[0-9]+(-[a-zA-Z0-9.-]+)?$                          *)
(* A string is a sequence of characters.  "1" stands for a digit, "a" for  *)
(* a letter, "LF" for the line feed (a character in none of the pattern's  *)
(* classes).                                                               *)
(***************************************************************************)
VersionChars == {"1", ".", "-", "a", "LF"}

IsDigit(c) == c = "1"

\* the class [a-zA-Z0-9.-]
IsPreChar(c) == c \in {"1", "a", ".", "-"}

\* Positions the matcher can stand at after [0-9]+ started at a position of P.
AfterDigits(s, P) ==
    {j \in 2..(Len(s) + 1) :
        \E i \in P : i < j /\ \A k \in i..(j - 1) : IsDigit(s[k])}

\* Positions after the literal character c read at a position of P.
AfterChar(s, P, c) ==
    {i + 1 : i \in {p \in P : p <= Len(s) /\ s[p] = c}}

\* Positions after [a-zA-Z0-9.-]+ started at a position of P.
AfterPreChars(s, P) ==
    {j \in 2..(Len(s) + 1) :
        \E i \in P : i < j /\ \A k \in i..(j - 1) : IsPreChar(s[k])}

\* Positions after the optional group (-[a-zA-Z0-9.-]+)?
AfterPrerelease(s, P) == P \cup AfterPreChars(s, AfterChar(s, P, "-"))

\* Python's $ (no re.MULTILINE): the end of the string, or just before a
\* line feed that is the last character of the string.
AtDollar(s, i) ==
    \/ i = Len(s) + 1
    \/ i = Len(s) /\ s[i] = "LF"

ValidateVersionFormat(s) ==
    LET p1 == AfterDigits(s, {1})
        p2 == AfterDigits(s, AfterChar(s, p1, "."))
        p3 == AfterDigits(s, AfterChar(s, p2, "."))
        p4 == AfterPrerelease(s, p3)
    IN  \E i \in p4 : AtDollar(s, i)

(***************************************************************************)
(* SpecVersion: the validator applied to every string of the bound.        *)
(***************************************************************************)
InitVersion ==
    /\ version \in SeqsUpTo(VersionChars, MaxVerLen)
    /\ verdict = "none"
    /\ IdleSec
    /\ IdleRun
    /\ IdleOps
    /\ IdleUpd
    /\ IdleVal
    /\ IdleDocs

CallValidateVersion ==
    /\ verdict = "none"
    /\ verdict' = IF ValidateVersionFormat(version) THEN "accepted" ELSE "rejected"
    /\ UNCHANGED <<version, secVars, runVars, opsVars, updVars, valVars,
                   docVars>>

NextVersion == CallValidateVersion

SpecVersion == InitVersion /\ [][NextVersion]_vars

(***************************************************************************)
(* The documented format: X.Y.Z or X.Y.Z-prerelease, nothing before or     *)
(* after.  Stated by the shape of the string, not by the matcher.          *)
(***************************************************************************)
AllIn(s, lo, hi, Ok(_)) == lo <= hi /\ \A k \in lo..hi : Ok(s[k])

IsXYZ(s) ==
    \E a, b \in 1..Len(s) :
        /\ a < b
        /\ s[a] = "." /\ s[b] = "."
        /\ AllIn(s, 1, a - 1, IsDigit)
        /\ AllIn(s, a + 1, b - 1, IsDigit)
        /\ \/ AllIn(s, b + 1, Len(s), IsDigit)
           \/ \E d \in (b + 2)..Len(s) :
                 /\ s[d] = "-"
                 /\ AllIn(s, b + 1, d - 1, IsDigit)
                 /\ AllIn(s, d + 1, Len(s), IsPreChar)

\* C1: the validator accepts a string if and only if it has the form X.Y.Z
\* or X.Y.Z-prerelease; a string with extra characters before or after,
\* such as a trailing line feed, is rejected.
C1_AcceptsExactlyDocumentedForm ==
    verdict # "none" => (verdict = "accepted" <=> IsXYZ(version))

(***************************************************************************)
(* Manifest text.  A text is a sequence of lexemes:                        *)
(*   "RU" = `runAsUser: `   "NR" = `runAsNonRoot: `   "PV" = `privileged: `*)
(*   "0"  = `0`             "T"  = `true`             "LF" = line feed     *)
(* Every lexeme but "LF" begins with a word character and contains no      *)
(* line feed; "LF" is white space.                                         *)
(***************************************************************************)
Lexemes == {"RU", "NR", "PV", "0", "T", "LF"}

Ind(b) == IF b THEN 1 ELSE 0

\* re.search(r"runAsUser:\s*0\b", text), tried at start position i: the
\* lexeme RU, any run of white space, a 0, and after it a word boundary
\* (the end of the text or a non-word character).
RootUserAt(text, i) ==
    /\ text[i] = "RU"
    /\ \E j \in (i + 1)..Len(text) :
          /\ text[j] = "0"
          /\ \A k \in (i + 1)..(j - 1) : text[k] = "LF"
          /\ (j = Len(text) \/ text[j + 1] = "LF")

\* re.search(key + r".*true", text), tried at start position i: `.` matches
\* every character but the line feed.
ThenTrueAt(text, key, i) ==
    /\ text[i] = key
    /\ \E j \in (i + 1)..Len(text) :
          /\ text[j] = "T"
          /\ \A k \in (i + 1)..(j - 1) : text[k] # "LF"

HasRootUser(text) == \E i \in 1..Len(text) : RootUserAt(text, i)

HasRunAsNonRoot(text) == \E i \in 1..Len(text) : ThenTrueAt(text, "NR", i)

HasPrivileged(text) == \E i \in 1..Len(text) : ThenTrueAt(text, "PV", i)

\* A plausible slip: one issue per match instead of one per check.
CheckSecurityIssuesPerMatch(text) ==
    [issues |-> Cardinality({i \in 1..Len(text) : RootUserAt(text, i)})
                + Cardinality({i \in 1..Len(text) : ThenTrueAt(text, "PV", i)}),
     warned |-> ~HasRunAsNonRoot(text)]

\* A plausible slip: the missing runAsNonRoot counted as an issue.
CheckSecurityIssuesCountWarning(text) ==
    [issues |-> Ind(HasRootUser(text)) + Ind(~HasRunAsNonRoot(text))
                + Ind(HasPrivileged(text)),
     warned |-> ~HasRunAsNonRoot(text)]

\* _check_security_issues: the returned count and whether the warning was
\* printed.
CheckSecurityIssues(text) ==
    [issues |-> Ind(HasRootUser(text)) + Ind(HasPrivileged(text)),
     warned |-> ~HasRunAsNonRoot(text)]

(***************************************************************************)
(* SpecSec: security_scan (the manifests are the build outputs of the      *)
(* overlay subdirectories) and security_scan_generated (the manifests are  *)
(* the *.yaml files of output_dir).                                        *)
(***************************************************************************)
SampleManifests ==
    { <<"NR", "T">>,
      <<"LF">>,
      <<"RU", "0">>,
      <<"PV", "T", "LF", "NR", "T">>,
      <<"RU", "0", "LF", "PV", "T">> }

\* One manifest of any text of the bound, or several sample manifests.
ManifestLists ==
    {<<t>> : t \in SeqsUpTo(Lexemes, MaxManifestLen)}
        \cup SeqsUpTo(SampleManifests, MaxManifests)

InitSec ==
    /\ secOp \in {"security_scan", "security_scan_generated"}
    /\ secDirExists \in BOOLEAN
    /\ manifests \in ManifestLists
    /\ (~secDirExists => manifests = <<>>)
    /\ secIdx = 1
    /\ security_issues = 0
    /\ counts = <<>>
    /\ warned = <<>>
    /\ secOutcome = "running"
    /\ IdleVersion
    /\ IdleRun
    /\ IdleOps
    /\ IdleUpd
    /\ IdleVal
    /\ IdleDocs

\* security_scan_generated, lines 315-317: no output directory, raise.
SecGeneratedNoDirectory ==
    /\ secOutcome = "running"
    /\ secOp = "security_scan_generated"
    /\ ~secDirExists
    /\ secOutcome' = "raised_no_dir"
    /\ UNCHANGED <<secOp, secDirExists, manifests, secIdx, security_issues,
                   counts, warned, versionVars, runVars, opsVars,
                   updVars, valVars, docVars>>

\* security_scan, lines 287 and 305-308: no overlays directory, the loop is
\* skipped and the sum is still 0.
SecScanNoDirectory ==
    /\ secOutcome = "running"
    /\ secOp = "security_scan"
    /\ ~secDirExists
    /\ secOutcome' = IF security_issues > 0 THEN "raised_issues" ELSE "passed"
    /\ UNCHANGED <<secOp, secDirExists, manifests, secIdx, security_issues,
                   counts, warned, versionVars, runVars, opsVars,
                   updVars, valVars, docVars>>

\* A variant that raises at the first manifest with findings.
SecCheckManifestStopsAtFinding ==
    /\ secOutcome = "running"
    /\ secDirExists
    /\ secIdx <= Len(manifests)
    /\ LET r == CheckSecurityIssues(manifests[secIdx])
       IN  /\ security_issues' = security_issues + r.issues
           /\ counts' = Append(counts, r.issues)
           /\ warned' = Append(warned, r.warned)
           /\ secOutcome' = IF r.issues > 0 THEN "raised_issues" ELSE secOutcome
    /\ secIdx' = secIdx + 1
    /\ UNCHANGED <<secOp, secDirExists, manifests, versionVars, runVars,
                   opsVars, updVars, valVars, docVars>>

\* One turn of the loop: the manifest is read (or built), checked, summed.
SecCheckManifest ==
    /\ secOutcome = "running"
    /\ secDirExists
    /\ secIdx <= Len(manifests)
    /\ LET r == CheckSecurityIssues(manifests[secIdx])
       IN  /\ security_issues' = security_issues + r.issues
           /\ counts' = Append(counts, r.issues)
           /\ warned' = Append(warned, r.warned)
    /\ secIdx' = secIdx + 1
    /\ UNCHANGED <<secOp, secDirExists, manifests, secOutcome, versionVars, runVars,
                   opsVars, updVars, valVars, docVars>>

\* security_scan, lines 295-297: kustomize build exits non-zero, the error
\* leaves the operation.
SecBuildFails ==
    /\ secOutcome = "running"
    /\ secOp = "security_scan"
    /\ secDirExists
    /\ secIdx <= Len(manifests)
    /\ secOutcome' = "raised_build"
    /\ UNCHANGED <<secOp, secDirExists, manifests, secIdx, security_issues,
                   counts, warned, versionVars, runVars, opsVars,
                   updVars, valVars, docVars>>

\* A variant that lets a single issue pass.
SecFinishToleratingOne ==
    /\ secOutcome = "running"
    /\ secDirExists
    /\ secIdx > Len(manifests)
    /\ secOutcome' = IF security_issues > 1 THEN "raised_issues" ELSE "passed"
    /\ UNCHANGED <<secOp, secDirExists, manifests, secIdx, security_issues,
                   counts, warned, versionVars, runVars, opsVars,
                   updVars, valVars, docVars>>

\* After the loop: raise when the sum is positive, else report success.
SecFinish ==
    /\ secOutcome = "running"
    /\ secDirExists
    /\ secIdx > Len(manifests)
    /\ secOutcome' = IF security_issues > 0 THEN "raised_issues" ELSE "passed"
    /\ UNCHANGED <<secOp, secDirExists, manifests, secIdx, security_issues,
                   counts, warned, versionVars, runVars, opsVars,
                   updVars, valVars, docVars>>

NextSec ==
    \/ SecGeneratedNoDirectory
    \/ SecScanNoDirectory
    \/ SecCheckManifest
    \/ SecBuildFails
    \/ SecFinish

SpecSec == InitSec /\ [][NextSec]_vars

(***************************************************************************)
(* Findings stated line by line, independently of the matcher.             *)
(***************************************************************************)
\* The positions of the line feeds, with 0 and Len+1 as the outer fences.
Fences(text) == {0, Len(text) + 1} \cup {i \in 1..Len(text) : text[i] = "LF"}

\* The line that starts after fence lo holds `key` and, later, `true`.
LineAfterHasKeyThenTrue(text, lo, key) ==
    \E hi \in Fences(text) :
        /\ lo < hi
        /\ \A f \in Fences(text) : ~(lo < f /\ f < hi)
        /\ \E i, j \in (lo + 1)..(hi - 1) : i < j /\ text[i] = key /\ text[j] = "T"

\* The number of lines that hold `key` and, later on the line, `true`.
LinesWithKeyThenTrue(text, key) ==
    Cardinality({lo \in Fences(text) : LineAfterHasKeyThenTrue(text, lo, key)})

\* The next lexeme that is not a line feed.
NextNonBlank(text, i) ==
    LET later == {j \in (i + 1)..Len(text) : text[j] # "LF"}
    IN  IF later = {} THEN 0 ELSE CHOOSE j \in later : \A k \in later : j <= k

\* The number of `runAsUser:` followed, after white space only, by a 0 that
\* ends its word.
RootUserOccurrences(text) ==
    Cardinality({i \in 1..Len(text) :
        /\ text[i] = "RU"
        /\ LET j == NextNonBlank(text, i)
           IN  /\ j # 0
               /\ text[j] = "0"
               /\ (j = Len(text) \/ text[j + 1] = "LF")})

PrivilegedOccurrences(text) == LinesWithKeyThenTrue(text, "PV")

RootUserFinding(text) == RootUserOccurrences(text) >= 1

PrivilegedFinding(text) == PrivilegedOccurrences(text) >= 1

NonRootDeclared(text) == LinesWithKeyThenTrue(text, "NR") >= 1

Scanned == 1..Len(counts)

\* C2: each additional occurrence of `runAsUser: 0` or of `privileged: true`
\* in a scanned text increases the returned issue count by exactly one, that
\* is, the count is the number of occurrences.
C2_CountIsNumberOfOccurrences ==
    \A i \in Scanned :
        counts[i] = RootUserOccurrences(manifests[i])
                    + PrivilegedOccurrences(manifests[i])

\* C2 as amended: the count is the number of finding kinds (root user,
\* privileged) present in the text, so it is at most 2 and a further
\* occurrence of a kind already present does not change it.
C2_CountIsNumberOfFindingKinds ==
    \A i \in Scanned :
        /\ counts[i] = Ind(RootUserFinding(manifests[i]))
                       + Ind(PrivilegedFinding(manifests[i]))
        /\ counts[i] <= 2

C2_Witness ==
    \E i \in Scanned :
        /\ PrivilegedOccurrences(manifests[i]) = 2
        /\ ~RootUserFinding(manifests[i])
        /\ counts[i] = 1

\* C3: a missing `runAsNonRoot: true` is a warning and not a counted issue:
\* manifests with the same root-user and privileged findings get the same
\* count whether or not the warning was printed, and a scan whose manifests
\* have no root-user and no privileged finding passes.
C3_MissingNonRootIsOnlyAWarning ==
    /\ \A i, j \in Scanned :
          (/\ RootUserFinding(manifests[i]) = RootUserFinding(manifests[j])
           /\ PrivilegedFinding(manifests[i]) = PrivilegedFinding(manifests[j]))
          => counts[i] = counts[j]
    /\ \A i \in Scanned :
          warned[i] = ~NonRootDeclared(manifests[i])
    /\ (/\ secOutcome \notin {"running", "raised_build", "raised_no_dir"}
        /\ \A i \in 1..Len(manifests) :
              /\ ~RootUserFinding(manifests[i])
              /\ ~PrivilegedFinding(manifests[i]))
       => secOutcome = "passed"

C3_Witness ==
    /\ secOutcome = "passed"
    /\ Len(manifests) = 2
    /\ warned[1] /\ ~warned[2]
    /\ counts[1] = counts[2]

(***************************************************************************)
(* Spec: one run of a CLI command of main.py, from the dispatch in its     *)
(* run_* coroutine to the exit of the process.                             *)
(*                                                                         *)
(* The five checks of the linting commands are taken as calls that pass or *)
(* fail (their inside is SpecSec's and the container's business); which    *)
(* ones fail is fixed per run by checkFails.                               *)
(***************************************************************************)
Commands ==
    {"lint", "generate", "ci", "setup", "lint-parallel", "generate-parallel",
     "version-update", "version-validate", "version-report"}

LintFlags == {"yaml_only", "python_only", "kustomize_only", "security_only"}

\* The order of run_all_linting (and of the task list of the parallel form).
AllChecks == <<"yaml", "python", "markdown", "kustomize", "security">>

CheckNames == {AllChecks[i] : i \in 1..Len(AllChecks)}

\* The overlay subdirectories: what iterdir() yields and is_dir() keeps.
OverlayDirs == {n \in Names : entries[n] = "dir"}

\* A variant whose chain has no branch for --python-only.
SelectedCheckWithoutPython(flags) ==
    IF "yaml_only" \in flags THEN "yaml"
    ELSE IF "kustomize_only" \in flags THEN "kustomize"
    ELSE IF "security_only" \in flags THEN "security"
    ELSE "all"

\* The if / elif chain of run_lint and run_lint_parallel.
SelectedCheck(flags) ==
    IF "yaml_only" \in flags THEN "yaml"
    ELSE IF "python_only" \in flags THEN "python"
    ELSE IF "kustomize_only" \in flags THEN "kustomize"
    ELSE IF "security_only" \in flags THEN "security"
    ELSE "all"

UsesLint == {"lint", "lint-parallel", "ci"}
UsesOverlays == {"generate", "generate-parallel", "ci"}

Init ==
    /\ cmd \in Commands
    /\ lintFlags \in (IF cmd \in {"lint", "lint-parallel"}
                      THEN SUBSET LintFlags ELSE {{}})
    /\ checkFails \in (IF cmd \in UsesLint THEN SUBSET CheckNames ELSE {{}})
    /\ overlayOpt \in (IF cmd \in {"generate", "version-update"}
                       THEN 0..MaxOverlays ELSE {0})
    /\ dryRun \in (IF cmd = "version-update" THEN BOOLEAN ELSE {FALSE})
    /\ overlaysDirExists \in (IF cmd \in UsesOverlays THEN BOOLEAN ELSE {FALSE})
    /\ entries \in [Names -> {"absent", "dir", "file"}]
    /\ (~overlaysDirExists => entries = [n \in Names |-> "absent"])
    /\ outDirExists0 \in (IF cmd \in UsesOverlays THEN BOOLEAN ELSE {FALSE})
    /\ outFiles0 \in [FileKeys -> {<<"absent">>, <<"old">>}]
    /\ (~outDirExists0 => outFiles0 = [k \in FileKeys |-> <<"absent">>])
    /\ outDirExists = outDirExists0
    /\ outFiles = outFiles0
    /\ buildCalls = 0
    /\ pc = "cli"
    /\ todo = <<>>
    /\ ran = <<>>
    /\ pending = {}
    /\ tasks = <<>>
    /\ printed = {}
    /\ error = "none"
    /\ exitCode = -1
    /\ IdleVersion
    /\ IdleSec
    /\ IdleOps
    /\ IdleUpd
    /\ IdleVal
    /\ IdleDocs

otherVars == <<versionVars, secVars, opsVars, updVars, valVars,
               docVars>>

envVars == <<cmd, lintFlags, overlayOpt, dryRun, overlaysDirExists, entries,
             checkFails, outDirExists0, outFiles0>>

\* A variant that prints the error but lets the process end with status 0.
CliCatchNoExit(err, msgs) ==
    /\ error' = err
    /\ printed' = printed \cup msgs \cup {<<"cli_failed", cmd>>}
    /\ exitCode' = 0
    /\ pc' = "exited"

\* The `except Exception as e` of every run_* coroutine of main.py: print
\* the failure, sys.exit(1).  msgs is what the pipeline printed on the way.
CliCatch(err, msgs) ==
    /\ error' = err
    /\ printed' = printed \cup msgs \cup {<<"cli_failed", cmd>>}
    /\ exitCode' = 1
    /\ pc' = "exited"

\* The try body of the run_* coroutine, up to its first await.
CliDispatch ==
    /\ pc = "cli"
    /\ IF cmd \in {"lint", "lint-parallel"}
       THEN LET sel == SelectedCheck(lintFlags)
            IN  IF sel # "all"
                THEN todo' = <<sel>> /\ pc' = "lint_seq" /\ UNCHANGED tasks
                ELSE IF cmd = "lint"
                THEN todo' = AllChecks /\ pc' = "lint_seq" /\ UNCHANGED tasks
                ELSE /\ tasks' = [c \in CheckNames |-> "pending"]
                     /\ pc' = "gather"
                     /\ UNCHANGED todo
       ELSE /\ UNCHANGED tasks
            /\ todo' = IF cmd = "ci" THEN AllChecks ELSE <<>>
            /\ pc' = CASE cmd = "ci" -> "lint_seq"
                       [] cmd = "generate" ->
                            IF overlayOpt # 0 THEN "gen_one" ELSE "gen_all"
                       [] cmd = "generate-parallel" -> "gen_all_par"
                       [] OTHER -> "op"
    /\ UNCHANGED <<envVars, outDirExists, outFiles, buildCalls, ran, pending,
                   printed, error, exitCode, otherVars>>

\* True when the linting in progress is run_all_linting.
RunsAllLinting == cmd = "ci" \/ SelectedCheck(lintFlags) = "all"

\* A variant that goes on to the next check after a failed one.
LintSeqStepContinuing ==
    /\ pc = "lint_seq"
    /\ todo # <<>>
    /\ LET c == Head(todo)
       IN  /\ ran' = Append(ran, c)
           /\ printed' = IF c \in checkFails THEN printed
                          ELSE printed \cup {<<"passed", c>>}
           /\ todo' = Tail(todo)
           /\ UNCHANGED <<pc, error, exitCode>>
    /\ UNCHANGED <<envVars, outDirExists, outFiles, buildCalls, pending, tasks,
                   otherVars>>

\* One check of the sequential linting (or the single check a flag names):
\* it passes and prints its message, or raises into the CLI.
LintSeqStep ==
    /\ pc = "lint_seq"
    /\ todo # <<>>
    /\ LET c == Head(todo)
       IN  /\ ran' = Append(ran, c)
           /\ IF c \in checkFails
              THEN CliCatch("check_failed", {}) /\ UNCHANGED todo
              ELSE /\ printed' = printed \cup {<<"passed", c>>}
                   /\ todo' = Tail(todo)
                   /\ UNCHANGED <<pc, error, exitCode>>
    /\ UNCHANGED <<envVars, outDirExists, outFiles, buildCalls, pending, tasks,
                   otherVars>>

\* All checks returned: run_all_linting prints its message and returns; ci
\* prints "Linting completed" and goes on to the generation.
LintSeqDone ==
    /\ pc = "lint_seq"
    /\ todo = <<>>
    /\ printed' = printed
          \cup (IF RunsAllLinting THEN {<<"all_linting_completed", "seq">>} ELSE {})
          \cup (IF cmd = "ci" THEN {<<"ci_step_completed", "lint">>} ELSE {})
    /\ pc' = IF cmd = "ci" THEN "gen_all" ELSE "returned"
    /\ UNCHANGED <<envVars, outDirExists, outFiles, buildCalls, todo, ran,
                   pending, tasks, error, exitCode, otherVars>>

\* What `kustomize build overlays/<o>/` prints for overlay o.
BuildOutput(o) == <<"built", o>>

\* A variant in which every task writes one shared file.
ManifestFileShared(o) == 0

\* output_path / f"{overlay_name}.yaml"
ManifestFile(o) == o

\* A variant that empties the output directory before it writes.
WriteManifestIntoEmptiedDirectory(o) ==
    /\ outDirExists' = TRUE
    /\ outFiles' = [k \in FileKeys |->
                       IF k = ManifestFile(o) THEN BuildOutput(o)
                       ELSE <<"absent">>]

\* generate_overlay after a successful build: mkdir(exist_ok=True), then
\* write_text of the build output.
WriteManifest(o) ==
    /\ outDirExists' = TRUE
    /\ outFiles' = [outFiles EXCEPT ![ManifestFile(o)] = BuildOutput(o)]

\* A variant in which ci ends after the generation, without the scan.
GenerateReturnsSkippingScan(msgs) ==
    /\ printed' = printed \cup msgs
          \cup (IF cmd = "ci" THEN {<<"ci_step_completed", "generate">>} ELSE {})
    /\ pc' = "returned"

\* generate_all_overlays (or its parallel form) returns normally: for ci the
\* CLI prints "Manifest generation completed" and goes on to the scan.
GenerateReturns(msgs) ==
    /\ printed' = printed \cup msgs
          \cup (IF cmd = "ci" THEN {<<"ci_step_completed", "generate">>} ELSE {})
    /\ pc' = IF cmd = "ci" THEN "scan" ELSE "returned"

\* A variant that creates the output directory before looking for overlays.
GenAllEntryMkdirFirst ==
    /\ pc = "gen_all"
    /\ outDirExists' = TRUE
    /\ IF ~overlaysDirExists
       THEN GenerateReturns({<<"no_overlays_dir", "seq">>}) /\ UNCHANGED pending
       ELSE pending' = OverlayDirs /\ pc' = "gen_seq" /\ UNCHANGED printed
    /\ UNCHANGED <<envVars, outFiles, buildCalls, todo, ran,
                   tasks, error, exitCode, otherVars>>

\* generate_all_overlays, lines 387-392: return at once without an overlays
\* directory, else loop over its subdirectories.
GenAllEntry ==
    /\ pc = "gen_all"
    /\ IF ~overlaysDirExists
       THEN GenerateReturns({<<"no_overlays_dir", "seq">>}) /\ UNCHANGED pending
       ELSE pending' = OverlayDirs /\ pc' = "gen_seq" /\ UNCHANGED printed
    /\ UNCHANGED <<envVars, outDirExists, outFiles, buildCalls, todo, ran,
                   tasks, error, exitCode, otherVars>>

\* One turn of the loop of generate_all_overlays: generate_overlay of one
\* subdirectory (iterdir's order is any order).  The build succeeds and the
\* manifest is written, or it fails and the error reaches the CLI.
GenSeqStep ==
    /\ pc = "gen_seq"
    /\ \E o \in pending :
          /\ buildCalls' = buildCalls + 1
          /\ \E ok \in BOOLEAN :
                IF ok
                THEN /\ WriteManifest(o)
                     /\ pending' = pending \ {o}
                     /\ UNCHANGED <<pc, printed, error, exitCode>>
                ELSE /\ CliCatch("build_failed", {})
                     /\ UNCHANGED <<pending, outDirExists, outFiles>>
    /\ UNCHANGED <<envVars, todo, ran, tasks, otherVars>>

\* The loop is over: "All overlays generated".
GenSeqDone ==
    /\ pc = "gen_seq"
    /\ pending = {}
    /\ GenerateReturns({<<"all_overlays_generated", "seq">>})
    /\ UNCHANGED <<envVars, outDirExists, outFiles, buildCalls, todo, ran,
                   pending, tasks, error, exitCode, otherVars>>

\* generate --overlay <name>: generate_overlay called by the CLI.  A missing
\* path raises before any container is started; a path that is no directory
\* cannot be built.
GenOne ==
    /\ pc = "gen_one"
    /\ IF entries[overlayOpt] = "absent"
       THEN /\ CliCatch("overlay_missing", {})
            /\ UNCHANGED <<outDirExists, outFiles, buildCalls>>
       ELSE /\ buildCalls' = buildCalls + 1
            /\ \E ok \in BOOLEAN :
                  IF ok /\ entries[overlayOpt] = "dir"
                  THEN /\ WriteManifest(overlayOpt)
                       /\ pc' = "returned"
                       /\ UNCHANGED <<printed, error, exitCode>>
                  ELSE /\ CliCatch("build_failed", {})
                       /\ UNCHANGED <<outDirExists, outFiles>>
    /\ UNCHANGED <<envVars, todo, ran, pending, tasks, otherVars>>

\* generate_all_overlays_parallel, lines 842-860: the two early returns,
\* else one task per subdirectory.
GenAllParEntry ==
    /\ pc = "gen_all_par"
    /\ IF ~overlaysDirExists
       THEN GenerateReturns({<<"no_overlays_dir", "par">>}) /\ UNCHANGED tasks
       ELSE IF OverlayDirs = {}
       THEN GenerateReturns({<<"no_overlays_found", "par">>}) /\ UNCHANGED tasks
       ELSE /\ tasks' = [o \in OverlayDirs |-> "pending"]
            /\ pc' = "gather"
            /\ UNCHANGED printed
    /\ UNCHANGED <<envVars, outDirExists, outFiles, buildCalls, todo, ran,
                   pending, error, exitCode, otherVars>>

(***************************************************************************)
(* asyncio.gather of the tasks: they run interleaved at their awaits.  A   *)
(* task is "pending" until it first runs (and issues its container call),  *)
(* "running" until its call returns, then "ok" or "failed".  The awaiting  *)
(* coroutine is resumed with the result once all are ok, or with the       *)
(* exception as soon as one has failed; the others are not cancelled by    *)
(* gather and go on until the process exits.                               *)
(***************************************************************************)
IsLintBatch == cmd = "lint-parallel"

TaskStart(t) ==
    /\ pc = "gather"
    /\ tasks[t] = "pending"
    /\ tasks' = [tasks EXCEPT ![t] = "running"]
    /\ buildCalls' = IF IsLintBatch THEN buildCalls ELSE buildCalls + 1
    /\ UNCHANGED <<envVars, outDirExists, outFiles, pc, todo, ran, pending,
                   printed, error, exitCode, otherVars>>

\* A variant in which a failing check ends like a passing one.
LintTaskFinishSwallowing(t) ==
    /\ pc = "gather"
    /\ IsLintBatch
    /\ tasks[t] = "running"
    /\ tasks' = [tasks EXCEPT ![t] = "ok"]
    /\ printed' = printed \cup {<<"passed", t>>}
    /\ UNCHANGED <<envVars, outDirExists, outFiles, buildCalls, pc, todo, ran,
                   pending, error, exitCode, otherVars>>

\* A linting task ends: passed and printed, or failed.
LintTaskFinish(t) ==
    /\ pc = "gather"
    /\ IsLintBatch
    /\ tasks[t] = "running"
    /\ IF t \in checkFails
       THEN tasks' = [tasks EXCEPT ![t] = "failed"] /\ UNCHANGED printed
       ELSE /\ tasks' = [tasks EXCEPT ![t] = "ok"]
            /\ printed' = printed \cup {<<"passed", t>>}
    /\ UNCHANGED <<envVars, outDirExists, outFiles, buildCalls, pc, todo, ran,
                   pending, error, exitCode, otherVars>>

\* A generate_overlay task ends: its build returned and the manifest is
\* written (no await lies between the two), or the build failed.
GenTaskFinish(t) ==
    /\ pc = "gather"
    /\ ~IsLintBatch
    /\ tasks[t] = "running"
    /\ \E ok \in BOOLEAN :
          IF ok
          THEN WriteManifest(t) /\ tasks' = [tasks EXCEPT ![t] = "ok"]
          ELSE /\ tasks' = [tasks EXCEPT ![t] = "failed"]
               /\ UNCHANGED <<outDirExists, outFiles>>
    /\ UNCHANGED <<envVars, buildCalls, pc, todo, ran, pending, printed, error,
                   exitCode, otherVars>>

BatchKind == IF IsLintBatch THEN "lint" ELSE "generate"

\* A gather that returns once every task has ended, failed or not
\* (return_exceptions=True).
GatherReturnIgnoringFailures ==
    /\ pc = "gather"
    /\ \A t \in DOMAIN tasks : tasks[t] \in {"ok", "failed"}
    /\ IF IsLintBatch
       THEN /\ printed' = printed \cup {<<"all_parallel_completed", "lint">>}
            /\ pc' = "returned"
       ELSE GenerateReturns({<<"all_parallel_completed", "generate">>})
    /\ UNCHANGED <<envVars, outDirExists, outFiles, buildCalls, todo, ran,
                   pending, tasks, error, exitCode, otherVars>>

\* gather returns: every task is ok; the batch prints its success message.
GatherReturn ==
    /\ pc = "gather"
    /\ \A t \in DOMAIN tasks : tasks[t] = "ok"
    /\ IF IsLintBatch
       THEN /\ printed' = printed \cup {<<"all_parallel_completed", "lint">>}
            /\ pc' = "returned"
       ELSE GenerateReturns({<<"all_parallel_completed", "generate">>})
    /\ UNCHANGED <<envVars, outDirExists, outFiles, buildCalls, todo, ran,
                   pending, tasks, error, exitCode, otherVars>>

\* gather raises: some task has failed.  The batch prints "Parallel ...
\* failed" and re-raises, the CLI prints and exits; the tasks still under
\* way end with the event loop.
GatherRaise ==
    /\ pc = "gather"
    /\ \E t \in DOMAIN tasks : tasks[t] = "failed"
    /\ CliCatch("task_failed", {<<"parallel_failed", BatchKind>>})
    /\ tasks' = [t \in DOMAIN tasks |->
                    IF tasks[t] \in {"pending", "running"}
                    THEN "cancelled" ELSE tasks[t]]
    /\ UNCHANGED <<envVars, outDirExists, outFiles, buildCalls, todo, ran,
                   pending, otherVars>>

\* ci, third step: security_scan_generated(output_dir).  It raises without
\* the directory; with it, the outcome is that of the manifests' content
\* (a directory without manifests has nothing to find).
CiScan ==
    /\ pc = "scan"
    /\ IF ~outDirExists
       THEN CliCatch("no_manifests_dir", {})
       ELSE \E found \in BOOLEAN :
               IF found /\ (\E k \in FileKeys : outFiles[k] # <<"absent">>)
               THEN CliCatch("scan_issues", {})
               ELSE /\ printed' = printed \cup {<<"passed", "generated_scan">>,
                                                <<"ci_step_completed", "scan">>}
                    /\ pc' = "returned"
                    /\ UNCHANGED <<error, exitCode>>
    /\ UNCHANGED <<envVars, outDirExists, outFiles, buildCalls, todo, ran,
                   pending, tasks, otherVars>>

\* setup and the version commands: one pipeline call that returns or raises.
PipelineCall ==
    /\ pc = "op"
    /\ \E ok \in BOOLEAN :
          IF ok
          THEN pc' = "returned" /\ UNCHANGED <<printed, error, exitCode>>
          ELSE CliCatch("op_failed", {})
    /\ UNCHANGED <<envVars, outDirExists, outFiles, buildCalls, todo, ran,
                   pending, tasks, otherVars>>

\* The last print of the try body; version report has none.
FinalMessage ==
    CASE cmd = "version-report" -> {}
      [] cmd = "version-update" ->
            IF dryRun THEN {<<"cli_dry_run_completed", cmd>>}
            ELSE {<<"cli_success", cmd>>}
      [] OTHER -> {<<"cli_success", cmd>>}

\* The pipeline calls of the command all returned: the final message, and
\* the process ends with status 0.
CliFinish ==
    /\ pc = "returned"
    /\ printed' = printed \cup FinalMessage
    /\ exitCode' = 0
    /\ pc' = "exited"
    /\ UNCHANGED <<envVars, outDirExists, outFiles, buildCalls, todo, ran,
                   pending, tasks, error, otherVars>>

Next ==
    \/ CliDispatch
    \/ LintSeqStep
    \/ LintSeqDone
    \/ GenAllEntry
    \/ GenSeqStep
    \/ GenSeqDone
    \/ GenOne
    \/ GenAllParEntry
    \/ \E t \in DOMAIN tasks : TaskStart(t)
    \/ \E t \in DOMAIN tasks : LintTaskFinish(t)
    \/ \E t \in DOMAIN tasks : GenTaskFinish(t)
    \/ GatherReturn
    \/ GatherRaise
    \/ CiScan
    \/ PipelineCall
    \/ CliFinish

Spec == Init /\ [][Next]_vars

(***************************************************************************)
(* Claims about the CLI run.                                               *)
(***************************************************************************)
GeneratesAll == cmd \in {"generate", "generate-parallel"} /\ overlayOpt = 0

OutputUntouched == outDirExists = outDirExists0 /\ outFiles = outFiles0

\* C4: "generate all overlays" (sequential or parallel) on zero overlays (no
\* overlays directory, or one without subdirectories) is a no-op that
\* reports success: no container call, no file or directory created or
\* written, no error, exit status 0.
C4_ZeroOverlaysIsSuccessfulNoOp ==
    /\ (cmd \in UsesOverlays /\ overlayOpt = 0 /\ OverlayDirs = {})
          => /\ buildCalls = 0
             /\ OutputUntouched
             /\ error \notin {"build_failed", "task_failed", "overlay_missing"}
    /\ (GeneratesAll /\ OverlayDirs = {})
          => /\ error = "none"
             /\ exitCode # 1
             /\ (pc = "exited"
                   => exitCode = 0 /\ <<"cli_success", cmd>> \in printed)

C4_Witness ==
    /\ cmd = "generate-parallel"
    /\ pc = "exited"
    /\ overlaysDirExists
    /\ OverlayDirs = {}
    /\ \E n \in Names : entries[n] = "file"
    /\ <<"no_overlays_found", "par">> \in printed
    /\ exitCode = 0

SuccessMessages == {"cli_success", "cli_dry_run_completed"}

\* C5: for every CLI command an error raised by the pipeline operation is
\* caught, printed, and the process exits with status 1; the final success
\* message is printed and the status is 0 only when no error was raised.
C5_ErrorsExitOneSuccessExitsZero ==
    /\ (error # "none") <=> (exitCode = 1)
    /\ (error # "none") <=> (<<"cli_failed", cmd>> \in printed)
    /\ (pc = "exited") <=> (exitCode \in {0, 1})
    /\ exitCode = 0 => FinalMessage \subseteq printed
    /\ \A m \in printed :
          m[1] \in SuccessMessages => (error = "none" /\ exitCode = 0)
    /\ (pc = "exited" /\ \E i \in 1..Len(ran) : ran[i] \in checkFails)
          => exitCode = 1
    /\ (pc = "exited" /\ \E t \in DOMAIN tasks : tasks[t] = "failed")
          => exitCode = 1

C5_Witness ==
    /\ cmd = "ci"
    /\ pc = "exited"
    /\ error = "scan_issues"
    /\ exitCode = 1
    /\ <<"cli_failed", "ci">> \in printed

SomeTaskFailed == \E t \in DOMAIN tasks : tasks[t] = "failed"

\* C7: in run_all_linting_parallel and generate_all_overlays_parallel, if
\* any one of the fanned-out calls raises, the batch raises and never prints
\* its success message, whatever the interleaving of the calls.
C7_OneFailureAbortsBatch ==
    SomeTaskFailed
       => /\ <<"all_parallel_completed", BatchKind>> \notin printed
          /\ <<"cli_success", cmd>> \notin printed
          /\ pc \in {"gather", "exited"}
          /\ (pc = "exited"
                => /\ error = "task_failed"
                   /\ exitCode = 1
                   /\ <<"parallel_failed", BatchKind>> \in printed)

C7_Witness ==
    /\ cmd = "lint-parallel"
    /\ pc = "exited"
    /\ \E t1, t2, t3 \in DOMAIN tasks :
          /\ tasks[t1] = "failed"
          /\ tasks[t2] = "ok"
          /\ tasks[t3] = "cancelled"

\* The output directory after all overlays were generated from the initial
\* one: <overlay>.yaml holds the overlay's build output, every other file is
\* as it was.
ExpectedFiles ==
    [k \in FileKeys |->
        IF k \in OverlayDirs THEN BuildOutput(k) ELSE outFiles0[k]]

\* C8: the parallel generation tasks share no state and need no order: when
\* every task succeeds, under every interleaving the output directory ends
\* with one file <overlay>.yaml per overlay subdirectory holding that
\* overlay's build output, the final state of the sequential form.
C8_ParallelGenerationMatchesSequential ==
    /\ (GeneratesAll /\ pc \in {"returned", "exited"} /\ error = "none")
          => /\ outFiles = ExpectedFiles
             /\ outDirExists = (outDirExists0 \/ OverlayDirs # {})
    /\ (cmd = "generate-parallel")
          => \A k \in FileKeys :
                outFiles[k] = IF k \in DOMAIN tasks /\ tasks[k] = "ok"
                              THEN BuildOutput(k) ELSE outFiles0[k]

C8_Witness ==
    /\ cmd = "generate-parallel"
    /\ pc = "exited"
    /\ exitCode = 0
    /\ Cardinality(OverlayDirs) >= 2
    /\ \E k \in OverlayDirs : outFiles0[k] = <<"old">>
    /\ outFiles = ExpectedFiles

(***************************************************************************)
(* SpecOps: one pipeline operation as its sequence of external calls (the  *)
(* awaited container calls), each of which returns or exits non-zero, and  *)
(* what the operation does with a failure.                                 *)
(***************************************************************************)
Operations ==
    {"lint_yaml", "lint_python", "lint_markdown", "validate_kustomize",
     "security_scan", "generate_overlay", "generate_all_overlays",
     "setup_environment", "run_pre_commit", "update_overlay_version",
     "update_all_versions", "validate_version_consistency",
     "generate_version_report", "_get_project_version", "build_docs",
     "serve_docs", "deploy_docs", "list_doc_versions", "delete_doc_version"}

RECURSIVE Repeat(_, _)
Repeat(s, n) == IF n = 0 THEN <<>> ELSE s \o Repeat(s, n - 1)

\* The calls of update_overlay_version: two queries in a dry run, else the
\* three yq -i calls, the patch query before the third, and the read-back.
UpdateCalls(dry) ==
    IF dry THEN <<"yq_read", "yq_read">>
    ELSE <<"yq_set_tag", "yq_set_label", "yq_read", "yq_set_patch", "read_file">>

\* The external calls of operation o, in order, with n overlay
\* subdirectories.  a and b are the operation's two-way inputs: a = dry_run
\* (version updates), markdown files exist (lint_markdown), version is None
\* (deploy_docs); b = set_default (deploy_docs).
Program(o, n, a, b) ==
    CASE o = "lint_yaml" -> <<"yamllint">>
      [] o = "lint_python" -> <<"ruff_check", "ruff_format">>
      [] o = "lint_markdown" -> <<"find_md", "mdformat">>
      [] o = "validate_kustomize" -> <<"build">> \o Repeat(<<"build">>, n)
      [] o = "security_scan" -> Repeat(<<"build">>, n)
      [] o = "generate_overlay" -> <<"build">>
      [] o = "generate_all_overlays" -> Repeat(<<"build">>, n)
      [] o = "setup_environment" -> <<"pre_commit">>
      [] o = "run_pre_commit" -> <<"pre_commit">>
      [] o = "update_overlay_version" -> UpdateCalls(a)
      [] o = "update_all_versions" -> Repeat(UpdateCalls(a), n)
      [] o = "validate_version_consistency" ->
            <<"poetry_version">> \o Repeat(<<"yq_query", "yq_query">>, n)
      [] o = "generate_version_report" ->
            Repeat(<<"yq_query", "yq_query", "yq_query">>, n)
      [] o = "_get_project_version" -> <<"poetry_version">>
      [] o = "build_docs" -> <<"mkdocs_build", "export_site">>
      [] o = "serve_docs" -> <<"mkdocs_serve">>
      [] o = "deploy_docs" ->
            (IF a THEN <<"poetry_version">> ELSE <<>>)
               \o <<"mike_deploy">>
               \o (IF b THEN <<"mike_set_default">> ELSE <<>>)
      [] o = "list_doc_versions" -> <<"mike_list">>
      [] OTHER -> <<"mike_delete">>

\* A variant in which lint_markdown's except clause forgets to re-raise.
HandlerMarkdownSwallows(o, site) ==
    IF o \in {"list_doc_versions", "generate_version_report", "lint_markdown"}
    THEN "swallow"
    ELSE IF o = "validate_version_consistency" /\ site = "yq_query"
    THEN "missing"
    ELSE "propagate"

\* What the operation does when the call at `site` fails: "propagate" (no
\* handler, or a handler that raises again), "swallow" (the except clause
\* prints and goes on), "missing" (the bare except of
\* validate_version_consistency sets the value to None and goes on).
Handler(o, site) ==
    IF o \in {"list_doc_versions", "generate_version_report"}
    THEN "swallow"
    ELSE IF o = "validate_version_consistency" /\ site = "yq_query"
    THEN "missing"
    ELSE "propagate"

opProgram == Program(op, opOverlays, optA, optB)

InitOps ==
    /\ op \in Operations
    /\ opOverlays \in 0..MaxOverlays
    /\ optA \in BOOLEAN
    /\ optB \in BOOLEAN
    /\ opPc = 1
    /\ failedCalls = {}
    /\ opIssues = 0
    /\ opOutcome = "running"
    /\ IdleVersion
    /\ IdleSec
    /\ IdleRun
    /\ IdleUpd
    /\ IdleVal
    /\ IdleDocs

opEnv == <<op, opOverlays, optA, optB>>

\* The next call returns normally.  lint_markdown returns early when find
\* lists no file; a value read by validate_version_consistency may be null,
\* malformed or different from the project version, which is an issue.
OpCallReturns ==
    /\ opOutcome = "running"
    /\ opPc <= Len(opProgram)
    /\ opPc' = opPc + 1
    /\ opOutcome' = IF op = "lint_markdown" /\ opProgram[opPc] = "find_md" /\ ~optA
                    THEN "returned" ELSE "running"
    /\ \E good \in BOOLEAN :
          opIssues' = IF /\ op = "validate_version_consistency"
                         /\ opProgram[opPc] = "yq_query"
                         /\ ~good
                      THEN opIssues + 1 ELSE opIssues
    /\ UNCHANGED <<opEnv, failedCalls, versionVars, secVars, runVars, updVars,
                   valVars, docVars>>

\* The next call exits non-zero.
OpCallFails ==
    /\ opOutcome = "running"
    /\ opPc <= Len(opProgram)
    /\ failedCalls' = failedCalls \cup {opPc}
    /\ LET h == Handler(op, opProgram[opPc])
       IN  /\ opOutcome' = IF h = "propagate" THEN "raised" ELSE "running"
           /\ opPc' = IF h = "propagate" THEN opPc ELSE opPc + 1
           /\ opIssues' = IF h = "missing" THEN opIssues + 1 ELSE opIssues
    /\ UNCHANGED <<opEnv, versionVars, secVars, runVars, updVars, valVars,
                   docVars>>

\* After the last call: validate_version_consistency raises when it has
\* collected issues, security_scan when the manifests have findings; every
\* other operation returns.
OpEnd ==
    /\ opOutcome = "running"
    /\ opPc > Len(opProgram)
    /\ \E found \in BOOLEAN :
          opOutcome' =
             IF \/ op = "validate_version_consistency" /\ opIssues > 0
                \/ op = "security_scan" /\ found /\ opOverlays > 0
             THEN "raised" ELSE "returned"
    /\ UNCHANGED <<opEnv, opPc, failedCalls, opIssues, versionVars, secVars,
                   runVars, updVars, valVars, docVars>>

NextOps ==
    \/ OpCallReturns
    \/ OpCallFails
    \/ OpEnd

SpecOps == InitOps /\ [][NextOps]_vars

TolerantOperations == {"list_doc_versions", "generate_version_report"}

Versions == {"v1", "v2"}

NoFile == [image |-> FALSE, tag |-> "nofile", label |-> "nofile",
           hasPatch |-> FALSE, ops |-> <<>>]

VersionOp(v) == [path |-> "version", value |-> v]
OtherOp(v) == [path |-> "other", value |-> v]

SampleFiles ==
    { [image |-> TRUE, tag |-> "v1", label |-> "v1", hasPatch |-> TRUE,
       ops |-> <<OtherOp("x"), VersionOp("v1")>>],
      [image |-> TRUE, tag |-> "v1", label |-> "v1", hasPatch |-> TRUE,
       ops |-> <<OtherOp("x")>>],
      [image |-> TRUE, tag |-> "v2", label |-> "v2", hasPatch |-> TRUE,
       ops |-> <<VersionOp("v2")>>],
      [image |-> FALSE, tag |-> "null", label |-> "null", hasPatch |-> FALSE,
       ops |-> <<>>] }

\* yq -i '.images[] |= select(.name == "...community-server").newTag = v'
YqSetTag(f, v) == IF f.image THEN [f EXCEPT !.tag = v] ELSE f

\* yq -i '.labels[0].pairs."app.kubernetes.io/version" = v'
YqSetLabel(f, v) == [f EXCEPT !.label = v]

\* yq '.patches[] | select(.target.kind == "Deployment") | .patch', and the
\* test "app.kubernetes.io~1version" in patch_check.
HasVersionPatch(f) ==
    f.hasPatch /\ \E i \in 1..Len(f.ops) : f.ops[i].path = "version"

\* yq -i '(... | .patch) |= sub("value: \"[^\"]*\""; "value: \"v\""; "g")':
\* every quoted value of the patch text is replaced.
YqUpdatePatch(f, v) ==
    IF f.hasPatch
    THEN [f EXCEPT !.ops = [i \in 1..Len(f.ops) |-> [f.ops[i] EXCEPT !.value = v]]]
    ELSE f

\* yq -i '(... | .patch) += "\n      - op: add\n        path: ...~1version ..."'
YqAppendPatch(f, v) ==
    IF f.hasPatch THEN [f EXCEPT !.ops = Append(f.ops, VersionOp(v))] ELSE f

\* A variant that always appends the patch operation.
PatchCallAlwaysAppend(f) == "yq_append_patch"

\* The branch at line 572.
PatchCall(f) == IF HasVersionPatch(f) THEN "yq_update_patch" ELSE "yq_append_patch"

updDirs == {n \in Names : updEntries[n] = "dir"}

InitUpd ==
    /\ updAll \in BOOLEAN
    /\ updTarget \in (IF updAll THEN {0} ELSE Names)
    /\ updVersion \in Versions \cup {"bad"}
    /\ updDry \in BOOLEAN
    /\ updOverlaysDir \in BOOLEAN
    /\ updEntries \in [Names -> {"absent", "dir", "file"}]
    /\ (~updOverlaysDir => updEntries = [n \in Names |-> "absent"])
    /\ hostFiles \in [Names -> SampleFiles \cup {NoFile}]
    /\ \A n \in Names : updEntries[n] # "dir" => hostFiles[n] = NoFile
    /\ hostFiles0 = hostFiles
    /\ updQueue = {}
    /\ updCur = 0
    /\ updPc = "start"
    /\ ctrFile = NoFile
    /\ derived = NoFile
    /\ calls = <<>>
    /\ writes = [n \in Names |-> 0]
    /\ containers = 0
    /\ updOutcome = "running"
    /\ updPrinted = {}
    /\ updRun = 1
    /\ hostFiles1 = hostFiles
    /\ branches = <<>>
    /\ IdleVersion
    /\ IdleSec
    /\ IdleRun
    /\ IdleOps
    /\ IdleVal
    /\ IdleDocs

updEnv == <<updAll, updTarget, updVersion, updDry, updOverlaysDir, updEntries,
            hostFiles0>>

notUpd == <<versionVars, secVars, runVars, opsVars, valVars, docVars>>

\* _validate_version_format on the version argument ("bad" stands for a
\* string the validator rejects).
VersionOk == updVersion \in Versions

\* A variant that takes the writing path whatever dry_run is.
FirstStepIgnoringDryRun(dry) == "set_tag"

\* `if dry_run:` at line 507.
FirstStep(dry) == IF dry THEN "dry_tag" ELSE "set_tag"

\* A variant that looks for the overlay before it checks the version.
EnterOverlayChecksOverlayFirst(o) ==
    IF updEntries[o] = "absent"
    THEN /\ updOutcome' = "raised" /\ updPc' = "no_overlay"
         /\ UNCHANGED <<updCur, ctrFile, derived, calls, containers>>
    ELSE IF ~VersionOk
    THEN /\ updOutcome' = "raised" /\ updPc' = "invalid_version"
         /\ UNCHANGED <<updCur, ctrFile, derived, calls, containers>>
    ELSE IF hostFiles[o] = NoFile
    THEN /\ updOutcome' = "raised" /\ updPc' = "no_kustomization"
         /\ UNCHANGED <<updCur, ctrFile, derived, calls, containers>>
    ELSE /\ updCur' = o
         /\ ctrFile' = hostFiles[o]
         /\ derived' = hostFiles[o]
         /\ calls' = <<>>
         /\ containers' = containers + 1
         /\ updPc' = FirstStep(updDry)
         /\ UNCHANGED updOutcome

\* update_overlay_version(o, ...), lines 488-505: the three checks, then the
\* container with the project directory copied into it.
EnterOverlay(o) ==
    IF ~VersionOk
    THEN /\ updOutcome' = "raised" /\ updPc' = "invalid_version"
         /\ UNCHANGED <<updCur, ctrFile, derived, calls, containers>>
    ELSE IF updEntries[o] = "absent"
    THEN /\ updOutcome' = "raised" /\ updPc' = "no_overlay"
         /\ UNCHANGED <<updCur, ctrFile, derived, calls, containers>>
    ELSE IF hostFiles[o] = NoFile
    THEN /\ updOutcome' = "raised" /\ updPc' = "no_kustomization"
         /\ UNCHANGED <<updCur, ctrFile, derived, calls, containers>>
    ELSE /\ updCur' = o
         /\ ctrFile' = hostFiles[o]
         /\ derived' = hostFiles[o]
         /\ calls' = <<>>
         /\ containers' = containers + 1
         /\ updPc' = FirstStep(updDry)
         /\ UNCHANGED updOutcome

\* update_overlay_version called by the CLI (version update --overlay).
UpdEnter ==
    /\ updPc = "start"
    /\ ~updAll
    /\ EnterOverlay(updTarget)
    /\ UNCHANGED <<updEnv, updRun, hostFiles1, branches,
                   hostFiles, updQueue, writes, updPrinted, notUpd>>

\* update_all_versions, lines 606-620.
UpdAllEnter ==
    /\ updPc = "start"
    /\ updAll
    /\ IF ~VersionOk
       THEN /\ updOutcome' = "raised" /\ updPc' = "invalid_version"
            /\ UNCHANGED <<updQueue, updPrinted>>
       ELSE IF ~updOverlaysDir
       THEN /\ updOutcome' = "returned" /\ updPc' = "done"
            /\ updPrinted' = updPrinted \cup {"no_overlays_dir"}
            /\ UNCHANGED updQueue
       ELSE IF updDirs = {}
       THEN /\ updOutcome' = "returned" /\ updPc' = "done"
            /\ updPrinted' = updPrinted \cup {"no_overlays_found"}
            /\ UNCHANGED updQueue
       ELSE /\ updQueue' = updDirs /\ updPc' = "loop"
            /\ UNCHANGED <<updOutcome, updPrinted>>
    /\ UNCHANGED <<updEnv, updRun, hostFiles1, branches,
                   hostFiles, updCur, ctrFile, derived, calls, writes,
                   containers, notUpd>>

\* The loop of update_all_versions, lines 622-628.
UpdAllNext ==
    /\ updPc = "loop"
    /\ IF updQueue = {}
       THEN /\ updOutcome' = "returned" /\ updPc' = "done"
            /\ updPrinted' = updPrinted
                  \cup (IF updDry THEN {} ELSE {"updated_all"})
            /\ UNCHANGED <<updQueue, updCur, ctrFile, derived, calls, containers>>
       ELSE \E o \in updQueue :
               /\ updQueue' = updQueue \ {o}
               /\ EnterOverlay(o)
               /\ UNCHANGED updPrinted
    /\ UNCHANGED <<updEnv, updRun, hostFiles1, branches,
                   hostFiles, writes, notUpd>>

\* update_overlay_version returns: to the loop, or to the CLI.
LeaveOverlay ==
    /\ updPc' = IF updAll THEN "loop" ELSE "done"
    /\ updOutcome' = IF updAll THEN "running" ELSE "returned"

\* The dry run, lines 508-541: two read-only queries and two prints.
UpdDryReadTag ==
    /\ updPc = "dry_tag"
    /\ calls' = Append(calls, "yq_read_tag")
    /\ updPc' = "dry_label"
    /\ UNCHANGED <<updEnv, updRun, hostFiles1, branches,
                   hostFiles, updQueue, updCur, ctrFile, derived,
                   writes, containers, updOutcome, updPrinted, notUpd>>

UpdDryReadLabel ==
    /\ updPc = "dry_label"
    /\ calls' = Append(calls, "yq_read_label")
    /\ updPrinted' = updPrinted \cup {"dry_run_would_update"}
    /\ LeaveOverlay
    /\ UNCHANGED <<updEnv, updRun, hostFiles1, branches,
                   hostFiles, updQueue, updCur, ctrFile, derived,
                   writes, containers, notUpd>>

\* Lines 543-551: yq -i on a container derived from `container`.
UpdSetTag ==
    /\ updPc = "set_tag"
    /\ calls' = Append(calls, "yq_set_tag")
    /\ derived' = YqSetTag(ctrFile, updVersion)
    /\ updPc' = "set_label"
    /\ UNCHANGED <<updEnv, updRun, hostFiles1, branches,
                   hostFiles, updQueue, updCur, ctrFile, writes,
                   containers, updOutcome, updPrinted, notUpd>>

\* Lines 553-561.
UpdSetLabel ==
    /\ updPc = "set_label"
    /\ calls' = Append(calls, "yq_set_label")
    /\ derived' = YqSetLabel(ctrFile, updVersion)
    /\ updPc' = "read_patch"
    /\ UNCHANGED <<updEnv, updRun, hostFiles1, branches,
                   hostFiles, updQueue, updCur, ctrFile, writes,
                   containers, updOutcome, updPrinted, notUpd>>

\* Lines 563-570: the query of the Deployment patch.
UpdReadPatch ==
    /\ updPc = "read_patch"
    /\ calls' = Append(calls, "yq_read_patch")
    /\ derived' = ctrFile
    /\ updPc' = "patch"
    /\ UNCHANGED <<updEnv, updRun, hostFiles1, branches,
                   hostFiles, updQueue, updCur, ctrFile, writes,
                   containers, updOutcome, updPrinted, notUpd>>

\* Lines 572-593: one of the two patch calls.
UpdPatch ==
    /\ updPc = "patch"
    /\ LET call == PatchCall(ctrFile)
       IN  /\ calls' = Append(calls, call)
           /\ branches' = Append(branches, call)
           /\ derived' = IF call = "yq_update_patch"
                         THEN YqUpdatePatch(ctrFile, updVersion)
                         ELSE YqAppendPatch(ctrFile, updVersion)
           /\ updPrinted' = updPrinted \cup
                 {IF call = "yq_update_patch" THEN "updated_patch" ELSE "added_patch"}
    /\ updPc' = "write_back"
    /\ UNCHANGED <<updEnv, updRun, hostFiles1,
                   hostFiles, updQueue, updCur, ctrFile, writes,
                   containers, updOutcome, notUpd>>

\* Lines 595-602: container.file(...).contents() of `container`, written to
\* the host file.
UpdWriteBack ==
    /\ updPc = "write_back"
    /\ hostFiles' = [hostFiles EXCEPT ![updCur] = ctrFile]
    /\ writes' = [writes EXCEPT ![updCur] = @ + 1]
    /\ updPrinted' = updPrinted \cup {"updated_tag_and_label"}
    /\ LeaveOverlay
    /\ UNCHANGED <<updEnv, updRun, hostFiles1, branches,
                   updQueue, updCur, ctrFile, derived, calls,
                   containers, notUpd>>

CallSteps ==
    {"dry_tag", "dry_label", "set_tag", "set_label", "read_patch", "patch",
     "write_back"}

\* A variant that saves what the last container holds when a call fails.
UpdCallFailsAfterSaving ==
    /\ updPc \in CallSteps
    /\ updOutcome' = "raised"
    /\ updPc' = "call_failed"
    /\ hostFiles' = [hostFiles EXCEPT ![updCur] = derived]
    /\ writes' = [writes EXCEPT ![updCur] = @ + 1]
    /\ UNCHANGED <<updEnv, updRun, hostFiles1, branches, updQueue, updCur,
                   ctrFile, derived, calls, containers, updPrinted, notUpd>>

\* A variant in which update_all_versions goes on after a failed overlay.
UpdCallFailsSkipsOverlay ==
    /\ updPc \in CallSteps
    /\ updOutcome' = IF updAll THEN "running" ELSE "raised"
    /\ updPc' = IF updAll THEN "loop" ELSE "call_failed"
    /\ UNCHANGED <<updEnv, updRun, hostFiles1, branches,
                   hostFiles, updQueue, updCur, ctrFile, derived, calls,
                   writes, containers, updPrinted, notUpd>>

\* The call the operation is about to make exits non-zero: the error leaves
\* update_overlay_version (and update_all_versions).
UpdCallFails ==
    /\ updPc \in CallSteps
    /\ updOutcome' = "raised"
    /\ updPc' = "call_failed"
    /\ UNCHANGED <<updEnv, updRun, hostFiles1, branches,
                   hostFiles, updQueue, updCur, ctrFile, derived, calls,
                   writes, containers, updPrinted, notUpd>>

\* The caller applies update_overlay_version again with the same arguments
\* once the previous application has returned.
UpdAgain ==
    /\ ~updAll
    /\ updPc = "done"
    /\ updOutcome = "returned"
    /\ updRun < MaxRuns
    /\ updRun' = updRun + 1
    /\ hostFiles1' = hostFiles
    /\ updPc' = "start"
    /\ updOutcome' = "running"
    /\ UNCHANGED <<updEnv, hostFiles, updQueue, updCur, ctrFile, derived, calls,
                   writes, containers, updPrinted, branches, notUpd>>

NextUpd ==
    \/ UpdEnter
    \/ UpdAllEnter
    \/ UpdAllNext
    \/ UpdDryReadTag
    \/ UpdDryReadLabel
    \/ UpdSetTag
    \/ UpdSetLabel
    \/ UpdReadPatch
    \/ UpdPatch
    \/ UpdWriteBack
    \/ UpdCallFails
    \/ UpdAgain

SpecUpd == InitUpd /\ [][NextUpd]_vars

\* C9: after update_overlay_version(overlay, v, dry_run=False) returns, the
\* overlay's kustomization.yaml on the host has the community-server image
\* newTag equal to v and the version label equal to v.
C9_HostFileHasNewVersion ==
    (~updAll /\ ~updDry /\ updOutcome = "returned")
       => /\ hostFiles[updTarget].label = updVersion
          /\ (hostFiles[updTarget].image => hostFiles[updTarget].tag = updVersion)

\* C10: a non-dry-run update of one overlay is a fixed sequence of three
\* external tool calls: overwrite the image tag, overwrite the version
\* label, then update or append the Deployment version patch.
C10_ThreeCallsInOrder ==
    (~updAll /\ ~updDry /\ updOutcome = "returned")
       => /\ Len(calls) = 3
          /\ calls[1] = "yq_set_tag"
          /\ calls[2] = "yq_set_label"
          /\ calls[3] \in {"yq_update_patch", "yq_append_patch"}

\* C10 as amended: the update is a fixed sequence of four yq calls: overwrite
\* the image tag, overwrite the version label, query the Deployment patch,
\* then exactly one of update (the queried patch names
\* app.kubernetes.io~1version) or append (it does not); the calls are made
\* in this order, so what has been made so far is a prefix of it.
ExpectedCalls(f) ==
    <<"yq_set_tag", "yq_set_label", "yq_read_patch",
      IF HasVersionPatch(f) THEN "yq_update_patch" ELSE "yq_append_patch">>

C10_FourCallsInOrder ==
    (~updDry /\ updCur # 0)
       => /\ Len(calls) <= 4
          /\ calls = SubSeq(ExpectedCalls(ctrFile), 1, Len(calls))
          /\ (updPc \in {"write_back", "done", "loop"} => Len(calls) = 4)
          /\ ~("updated_patch" \in updPrinted /\ "added_patch" \in updPrinted
                 /\ ~updAll)

C10_Witness ==
    /\ ~updAll /\ ~updDry
    /\ updOutcome = "returned"
    /\ calls[4] = "yq_append_patch"
    /\ writes[updTarget] = 1

ReadOnlyCalls == {"yq_read_tag", "yq_read_label"}

\* C11: with dry_run = TRUE, update_overlay_version and update_all_versions
\* issue only read-only queries, never write a kustomization.yaml on the
\* host, and leave every overlay's file as it was before the call.
C11_DryRunChangesNothing ==
    (updDry /\ updOutcome # "idle")
       => /\ \A i \in 1..Len(calls) : calls[i] \in ReadOnlyCalls
          /\ \A n \in Names : writes[n] = 0
          /\ hostFiles = hostFiles0
          /\ derived \in {NoFile, ctrFile}

C11_Witness ==
    /\ updDry /\ updAll
    /\ updOutcome = "returned"
    /\ Cardinality(updDirs) >= 2
    /\ containers >= 2
    /\ calls = <<"yq_read_tag", "yq_read_label">>
    /\ \E n \in Names : hostFiles[n].tag # updVersion /\ hostFiles[n] # NoFile

CiStepDone(step) == <<"ci_step_completed", step>> \in printed

ScanErrors == {"no_manifests_dir", "scan_issues"}

\* C12: ci runs all linting (the five checks in order), then the generation
\* of all overlays, then the scan of the generated manifests; a step starts
\* only after the previous one succeeded, a failure in a step prevents the
\* later steps and gives exit status 1, and "Complete CI pipeline passed" is
\* printed only after all three succeeded.
C12_CiStepsInOrder ==
    cmd = "ci" =>
       /\ ran = SubSeq(AllChecks, 1, Len(ran))
       /\ (pc \in {"gen_all", "gen_seq", "scan", "returned"} \/ buildCalls > 0
              \/ CiStepDone("generate") \/ outFiles # outFiles0)
             => /\ CiStepDone("lint")
                /\ ran = AllChecks
                /\ checkFails = {}
       /\ (pc \in {"scan", "returned"} \/ error \in ScanErrors
              \/ CiStepDone("scan"))
             => /\ CiStepDone("generate")
                /\ outFiles = ExpectedFiles
       /\ pc = "returned" => CiStepDone("scan")
       /\ error = "check_failed"
             => /\ buildCalls = 0
                /\ OutputUntouched
                /\ ~CiStepDone("lint") /\ ~CiStepDone("generate")
                /\ ~CiStepDone("scan")
       /\ error = "build_failed"
             => ~CiStepDone("generate") /\ ~CiStepDone("scan")
       /\ error \in ScanErrors => ~CiStepDone("scan")
       /\ error # "none" => (exitCode = 1 /\ pc = "exited")
       /\ <<"cli_success", "ci">> \in printed
             => /\ CiStepDone("lint") /\ CiStepDone("generate")
                /\ CiStepDone("scan")
                /\ error = "none"

C12_Witness ==
    /\ cmd = "ci"
    /\ pc = "exited"
    /\ exitCode = 0
    /\ buildCalls >= 2
    /\ <<"cli_success", "ci">> \in printed

\* The check each --*-only flag names.
FlagCheck(f) ==
    CASE f = "yaml_only" -> "yaml"
      [] f = "python_only" -> "python"
      [] f = "kustomize_only" -> "kustomize"
      [] f = "security_only" -> "security"

\* C13: lint and lint-parallel with exactly one --*-only flag run exactly the
\* named check and none of the others; with none of the flags they run all
\* five checks.
C13_FlagSelectsExactlyItsCheck ==
    (cmd \in {"lint", "lint-parallel"} /\ pc # "cli") =>
       /\ \A f \in LintFlags :
             lintFlags = {f}
                => /\ tasks = <<>>
                   /\ ran \in {<<>>, <<FlagCheck(f)>>}
                   /\ (pc # "lint_seq" => ran = <<FlagCheck(f)>>)
                   /\ \A c \in CheckNames \ {FlagCheck(f)} :
                         <<"passed", c>> \notin printed
       /\ (lintFlags = {} /\ cmd = "lint")
             => /\ tasks = <<>>
                /\ ran = SubSeq(AllChecks, 1, Len(ran))
                /\ (error = "none" /\ pc # "lint_seq" => ran = AllChecks)
       /\ (lintFlags = {} /\ cmd = "lint-parallel")
             => /\ ran = <<>>
                /\ DOMAIN tasks = CheckNames
                /\ (error = "none" /\ pc # "gather"
                       => \A c \in CheckNames : tasks[c] = "ok")

C13_Witness ==
    /\ cmd = "lint-parallel"
    /\ lintFlags = {"python_only"}
    /\ pc = "exited"
    /\ exitCode = 0
    /\ ran = <<"python">>
    /\ checkFails = CheckNames \ {"python"}

(***************************************************************************)
(* SpecVal: validate_version_consistency.                                  *)
(*                                                                         *)
(* The stdout of a tool is a sequence of the characters of VersionChars,   *)
(* with "null" standing for the four letters yq prints for a missing       *)
(* value; Fail stands for a call that exits non-zero.  An entry of         *)
(* overlays/ is a directory with the stdout of its two yq queries, or a    *)
(* plain file.                                                             *)
(***************************************************************************)
Fail == <<"fail">>
None == <<"None">>

TagOutputs ==
    { <<"1", ".", "1", ".", "1", "LF">>,
      <<"1", ".", "1", "LF">>,
      <<"1", ".", "1", ".", "1", "LF", "1", ".", "1", ".", "1", "LF">>,
      <<"null", "LF">>,
      <<"LF">>,
      Fail }

LabelOutputs ==
    { <<"1", ".", "1", ".", "1", "LF">>,
      <<"1", ".", "1", ".", "1", "-", "a", "LF">>,
      <<"null", "LF">>,
      Fail }

PoetryOutputs == { <<"1", ".", "1", ".", "1", "LF">>, Fail }

ValEntries ==
    [dir : {TRUE}, tagOut : TagOutputs, labelOut : LabelOutputs]
       \cup {[dir |-> FALSE, tagOut |-> Fail, labelOut |-> Fail]}

RECURSIVE LStrip(_)
LStrip(s) == IF s # <<>> /\ Head(s) = "LF" THEN LStrip(Tail(s)) ELSE s

RECURSIVE RStrip(_)
RStrip(s) ==
    IF s # <<>> /\ s[Len(s)] = "LF" THEN RStrip(SubSeq(s, 1, Len(s) - 1)) ELSE s

\* str.strip() on tool output.
Strip(s) == RStrip(LStrip(s))

\* result.strip() if result.strip() != "null" else None, and None when the
\* query raised (the bare except).
QueryValue(out) ==
    IF out = Fail THEN None
    ELSE IF Strip(out) = <<"null">> THEN None
    ELSE Strip(out)

\* `not x` for a value that is None or a string.
Falsy(x) == x = None \/ x = <<>>

\* A variant that reports only a missing tag, never an invalid one.
TagIssuesOnlyMissing(o, tag) ==
    IF Falsy(tag) THEN << <<o, "missing image tag">> >> ELSE <<>>

\* Lines 696-702.
TagIssues(o, tag) ==
    IF Falsy(tag) THEN << <<o, "missing image tag">> >>
    ELSE IF ~ValidateVersionFormat(tag)
    THEN << <<o, "invalid image tag format">> >>
    ELSE <<>>

\* Lines 704-710.
LabelIssues(o, label, expected) ==
    IF Falsy(label) THEN << <<o, "missing version label">> >>
    ELSE IF label # expected
    THEN << <<o, "version label != project version">> >>
    ELSE <<>>

InitVal ==
    /\ valDirExists \in BOOLEAN
    /\ valEntries \in SeqsUpTo(ValEntries, MaxOverlays)
    /\ (~valDirExists => valEntries = <<>>)
    /\ valPoetry \in PoetryOutputs
    /\ valPc = "start"
    /\ valIdx = 1
    /\ expected_project_version = None
    /\ image_tag = None
    /\ version_label = None
    /\ issues = <<>>
    /\ valOutcome = "running"
    /\ valCount = 0
    /\ IdleVersion
    /\ IdleSec
    /\ IdleRun
    /\ IdleOps
    /\ IdleUpd
    /\ IdleDocs

valEnv == <<valDirExists, valEntries, valPoetry>>

notVal == <<versionVars, secVars, runVars, opsVars, updVars, docVars>>

\* Lines 645-651: return without an overlays directory, else read the
\* project version (a failure of poetry leaves the operation).
ValEnter ==
    /\ valPc = "start"
    /\ IF ~valDirExists
       THEN /\ valOutcome' = "passed" /\ valPc' = "done"
            /\ UNCHANGED expected_project_version
       ELSE IF valPoetry = Fail
       THEN /\ valOutcome' = "raised_call" /\ valPc' = "done"
            /\ UNCHANGED expected_project_version
       ELSE /\ expected_project_version' = Strip(valPoetry)
            /\ valPc' = "loop"
            /\ UNCHANGED valOutcome
    /\ UNCHANGED <<valEnv, valIdx, image_tag, version_label, issues, valCount,
                   notVal>>

\* Lines 657-658: the next entry of iterdir(); anything but a directory is
\* skipped.
ValSkipEntry ==
    /\ valPc = "loop"
    /\ valIdx <= Len(valEntries)
    /\ ~valEntries[valIdx].dir
    /\ valIdx' = valIdx + 1
    /\ UNCHANGED <<valEnv, valPc, expected_project_version, image_tag,
                   version_label, issues, valOutcome, valCount, notVal>>

\* Lines 662-677: the image tag query.
ValReadTag ==
    /\ valPc = "loop"
    /\ valIdx <= Len(valEntries)
    /\ valEntries[valIdx].dir
    /\ image_tag' = QueryValue(valEntries[valIdx].tagOut)
    /\ valPc' = "label"
    /\ UNCHANGED <<valEnv, valIdx, expected_project_version, version_label,
                   issues, valOutcome, valCount, notVal>>

\* Lines 679-710: the version label query, then the two checks.
ValReadLabelAndCheck ==
    /\ valPc = "label"
    /\ LET label == QueryValue(valEntries[valIdx].labelOut)
       IN  /\ version_label' = label
           /\ issues' = issues \o TagIssues(valIdx, image_tag)
                          \o LabelIssues(valIdx, label, expected_project_version)
    /\ valIdx' = valIdx + 1
    /\ valPc' = "loop"
    /\ UNCHANGED <<valEnv, expected_project_version, image_tag, valOutcome,
                   valCount, notVal>>

\* Lines 712-718: after the loop.
ValFinish ==
    /\ valPc = "loop"
    /\ valIdx > Len(valEntries)
    /\ valOutcome' = IF issues # <<>> THEN "raised_issues" ELSE "passed"
    /\ valCount' = Len(issues)
    /\ valPc' = "done"
    /\ UNCHANGED <<valEnv, valIdx, expected_project_version, image_tag,
                   version_label, issues, notVal>>

NextVal ==
    \/ ValEnter
    \/ ValSkipEntry
    \/ ValReadTag
    \/ ValReadLabelAndCheck
    \/ ValFinish

SpecVal == InitVal /\ [][NextVal]_vars

\* The overlay's image tag is present and has the documented version format.
TagGood(e) == e.tagOut # Fail /\ IsXYZ(Strip(e.tagOut))

\* The overlay's version label is present and equal to the project version.
LabelGood(e) ==
    /\ e.labelOut # Fail
    /\ Strip(e.labelOut) \notin {<<>>, <<"null">>}
    /\ Strip(e.labelOut) = Strip(valPoetry)

AllOverlaysGood ==
    \A i \in 1..Len(valEntries) :
       valEntries[i].dir => TagGood(valEntries[i]) /\ LabelGood(valEntries[i])

RECURSIVE IssuesOf(_)
IssuesOf(es) ==
    IF es = <<>> THEN 0
    ELSE IssuesOf(Tail(es))
           + (IF Head(es).dir /\ ~TagGood(Head(es)) THEN 1 ELSE 0)
           + (IF Head(es).dir /\ ~LabelGood(Head(es)) THEN 1 ELSE 0)

\* C14: once the project version is read, validate_version_consistency
\* succeeds if and only if every overlay has an image tag that is present
\* and of valid format and a version label that is present and equal to the
\* project version; otherwise it raises with the number of issues found, at
\* most one for the tag and one for the label of an overlay, after it has
\* checked every overlay.
C14_PassesIffAllOverlaysGood ==
    /\ valOutcome = "passed" => AllOverlaysGood
    /\ (valPc = "done" /\ valOutcome # "raised_call")
          => (valOutcome = "passed" <=> AllOverlaysGood)
    /\ valOutcome = "raised_issues"
          => /\ valCount = IssuesOf(valEntries)
             /\ valCount > 0
             /\ valIdx = Len(valEntries) + 1
    /\ valOutcome = "raised_call" => (valPoetry = Fail /\ issues = <<>>)

C14_Witness ==
    /\ valOutcome = "raised_issues"
    /\ valCount = 3
    /\ Len(valEntries) = 2
    /\ valEntries[1].dir /\ valEntries[2].dir
    /\ valEntries[1].tagOut = <<"1", ".", "1", "LF">>
    /\ valEntries[1].labelOut = Fail
    /\ TagGood(valEntries[2])

\* The issue count of one manifest text, stated by its findings.
FileIssues(text) == Ind(RootUserFinding(text)) + Ind(PrivilegedFinding(text))

RECURSIVE SumOfFileIssues(_)
SumOfFileIssues(texts) ==
    IF texts = <<>> THEN 0
    ELSE FileIssues(Head(texts)) + SumOfFileIssues(Tail(texts))

\* C15: security_scan_generated raises if the output directory does not
\* exist; otherwise it scans every *.yaml file of the directory and raises
\* if and only if the sum of the per-file issue counts is positive, with
\* that sum as the raised count; a directory without *.yaml files passes.
C15_GeneratedScanRaisesIffSumPositive ==
    secOp = "security_scan_generated" =>
       /\ ~secDirExists
             => /\ secOutcome \in {"running", "raised_no_dir"}
                /\ counts = <<>>
       /\ (secDirExists /\ secOutcome # "running")
             => /\ Len(counts) = Len(manifests)
                /\ security_issues = SumOfFileIssues(manifests)
                /\ secOutcome = IF SumOfFileIssues(manifests) > 0
                                THEN "raised_issues" ELSE "passed"
       /\ (secDirExists /\ manifests = <<>> /\ secOutcome # "running")
             => secOutcome = "passed"

C15_Witness ==
    /\ secOp = "security_scan_generated"
    /\ secOutcome = "raised_issues"
    /\ Len(manifests) = 2
    /\ counts = <<0, 1>>
    /\ security_issues = 1

\* C16: generate_overlay(name, output_dir) for an existing overlay writes the
\* build output to <output_dir>/<name>.yaml, over any file of that name, and
\* leaves every other file of output_dir as it was; for an overlay that does
\* not exist it raises before any container call and writes nothing.
C16_GenerateOverlayWritesOnlyItsFile ==
    (cmd = "generate" /\ overlayOpt # 0 /\ pc # "cli") =>
       /\ entries[overlayOpt] = "absent"
             => /\ buildCalls = 0
                /\ OutputUntouched
                /\ (pc = "exited" => error = "overlay_missing")
       /\ (pc \in {"returned", "exited"} /\ error = "none")
             => /\ buildCalls = 1
                /\ outDirExists
                /\ outFiles[overlayOpt] = BuildOutput(overlayOpt)
                /\ \A k \in FileKeys \ {overlayOpt} : outFiles[k] = outFiles0[k]
       /\ error # "none" => OutputUntouched

C16_Witness ==
    /\ cmd = "generate"
    /\ overlayOpt = 1
    /\ pc = "exited"
    /\ exitCode = 0
    /\ outFiles0[1] = <<"old">>
    /\ outFiles0[2] = <<"old">>
    /\ outFiles[1] = <<"built", 1>>

\* C17: run_all_linting runs the five checks one at a time in the order
\* YAML, Python, Markdown, Kustomize, security; the first check that raises
\* stops the run, so no later check is started, and "All linting checks
\* completed" is printed only after all five returned normally.
C17_SequentialLintingStopsAtFirstFailure ==
    (cmd \in {"lint", "ci"} /\ RunsAllLinting) =>
       /\ ran = SubSeq(AllChecks, 1, Len(ran))
       /\ \A i \in 1..Len(ran) :
             IF ran[i] \in checkFails
             THEN /\ i = Len(ran)
                  /\ error = "check_failed"
                  /\ pc = "exited"
             ELSE <<"passed", ran[i]>> \in printed
       /\ <<"all_linting_completed", "seq">> \in printed
             => /\ ran = AllChecks
                /\ \A c \in CheckNames : <<"passed", c>> \in printed
                /\ checkFails = {}
       /\ (pc = "lint_seq" /\ todo # <<>>) => Head(todo) = AllChecks[Len(ran) + 1]

C17_Witness ==
    /\ cmd = "lint"
    /\ lintFlags = {}
    /\ pc = "exited"
    /\ ran = <<"yaml", "python", "markdown">>
    /\ checkFails = {"markdown", "security"}
    /\ <<"passed", "python">> \in printed

\* C18: for any fixed pass/fail result of each of the five checks,
\* run_all_linting succeeds if and only if run_all_linting_parallel succeeds,
\* under every interleaving of the parallel checks: each succeeds exactly
\* when no check fails.
C18_SequentialAndParallelLintingAgree ==
    (cmd \in {"lint", "lint-parallel"} /\ SelectedCheck(lintFlags) = "all") =>
       /\ pc = "exited" => (exitCode = 0 <=> checkFails = {})
       /\ pc = "exited" => (error = "none" <=> checkFails = {})
       /\ (<<"all_linting_completed", "seq">> \in printed
             \/ <<"all_parallel_completed", "lint">> \in printed)
             => checkFails = {}
       /\ (pc \in {"returned", "exited"} /\ checkFails = {})
             => IF cmd = "lint"
                THEN <<"all_linting_completed", "seq">> \in printed
                ELSE <<"all_parallel_completed", "lint">> \in printed

C18_Witness ==
    /\ cmd = "lint-parallel"
    /\ lintFlags = {}
    /\ pc = "exited"
    /\ exitCode = 1
    /\ checkFails = {"security"}
    /\ tasks["yaml"] = "ok" /\ tasks["kustomize"] = "ok"
    /\ tasks["security"] = "failed"

PreconditionErrors == {"invalid_version", "no_overlay", "no_kustomization"}

\* The precondition of update_overlay_version that fails first, "none" when
\* all three hold.
FirstFailedPrecondition(o) ==
    IF updVersion = "bad" THEN "invalid_version"
    ELSE IF updEntries[o] = "absent" THEN "no_overlay"
    ELSE IF hostFiles0[o] = NoFile THEN "no_kustomization"
    ELSE "none"

\* C19: update_overlay_version checks the version format, then the overlay
\* directory, then kustomization.yaml, and raises at the first that fails,
\* with no container started and no file modified; update_all_versions
\* rejects an invalid version before it looks at the overlays, so it raises
\* even with zero overlays.
C19_PreconditionsCheckedInOrder ==
    /\ (~updAll /\ updOutcome # "idle" /\ updPc # "start")
          => /\ (FirstFailedPrecondition(updTarget) # "none")
                   => /\ updOutcome = "raised"
                      /\ updPc = FirstFailedPrecondition(updTarget)
                      /\ containers = 0
                      /\ hostFiles = hostFiles0
                      /\ \A n \in Names : writes[n] = 0
                      /\ calls = <<>>
             /\ (FirstFailedPrecondition(updTarget) = "none")
                   => updPc \notin PreconditionErrors /\ containers = updRun
    /\ (updAll /\ updVersion = "bad" /\ updPc # "start")
          => /\ updOutcome = "raised"
             /\ updPc = "invalid_version"
             /\ containers = 0
             /\ updQueue = {}
             /\ hostFiles = hostFiles0

C19_Witness ==
    /\ ~updAll
    /\ updVersion \in Versions
    /\ updEntries[updTarget] = "file"
    /\ updOutcome = "raised"
    /\ updPc = "no_kustomization"
    /\ containers = 0

\* The Deployment patch the claim expects after an update to v: the value of
\* the app.kubernetes.io~1version operation is v, every other operation is
\* as it was.
PatchWithVersionReplaced(ops, v) ==
    [i \in 1..Len(ops) |->
        IF ops[i].path = "version" THEN [ops[i] EXCEPT !.value = v] ELSE ops[i]]

\* C20: when the Deployment patch of the overlay already contains the
\* app.kubernetes.io~1version operation, the version update replaces the
\* value of that operation with the new version and leaves the value of
\* every other operation of the patch unchanged.
C20_OnlyVersionOperationReplaced ==
    (/\ ~updAll /\ ~updDry /\ updOutcome = "returned"
     /\ HasVersionPatch(hostFiles0[updTarget]))
       => hostFiles[updTarget].ops
             = PatchWithVersionReplaced(hostFiles0[updTarget].ops, updVersion)

\* The number of app.kubernetes.io~1version operations of a file's patch.
VersionOps(f) == Cardinality({i \in 1..Len(f.ops) : f.ops[i].path = "version"})

\* C21: applying update_overlay_version(overlay, v) twice in a row leaves the
\* kustomization file as applying it once does, whether or not the version
\* operation existed before: when the first application takes the append
\* branch, the second takes the replace branch and adds no second version
\* operation.
C21_SecondApplicationReplaces ==
    (/\ ~updAll /\ ~updDry
     /\ updRun = 2 /\ updOutcome = "returned"
     /\ hostFiles0[updTarget].hasPatch)
       => /\ hostFiles = hostFiles1
          /\ branches[1] = "yq_append_patch" => branches[2] = "yq_update_patch"
          /\ VersionOps(hostFiles[updTarget]) = 1

\* C22: update_overlay_version writes the host kustomization.yaml exactly
\* once, as its last file action and only after every yq call of the update
\* has succeeded; if one of the calls fails, the host file is left as it was
\* before the call.
C22_WriteBackAllOrNothing ==
    (~updDry /\ updOutcome # "idle") =>
       /\ ~updAll
             => /\ writes[updTarget]
                     = (updRun - 1) + Ind(updPc = "done" /\ updOutcome = "returned")
                /\ \A n \in Names \ {updTarget} : writes[n] = 0
       /\ updAll => \A n \in Names : writes[n] <= 1
       /\ (updCur # 0 /\ updPc \in CallSteps)
             => writes[updCur] = (IF updAll THEN 0 ELSE updRun - 1)
       /\ updPc = "call_failed"
             => /\ writes[updCur] = (IF updAll THEN 0 ELSE updRun - 1)
                /\ hostFiles[updCur] = hostFiles1[updCur]
       /\ updPc = "write_back"
             => /\ Len(calls) = 4
                /\ calls[4] \in {"yq_update_patch", "yq_append_patch"}

C22_Witness ==
    /\ ~updAll /\ ~updDry
    /\ updRun = 1
    /\ updPc = "call_failed"
    /\ calls = <<"yq_set_tag", "yq_set_label">>
    /\ writes[updTarget] = 0
    /\ derived # hostFiles[updTarget]

\* The overlays whose update_overlay_version returned before the operation
\* raised: taken from the queue, with a kustomization.yaml, and not the one
\* whose call failed.
UpdatedBeforeFailure ==
    {n \in updDirs \ updQueue :
        /\ hostFiles0[n] # NoFile
        /\ ~(updPc = "call_failed" /\ n = updCur)}

\* C23: update_all_versions updates the overlays one at a time and is not
\* atomic: when the update of an overlay raises, every overlay updated
\* before it keeps what was written, no overlay after it is touched, and
\* the "Updated N overlays" message is not printed.
C23_UpdateAllStopsAtFailure ==
    (updAll /\ ~updDry) =>
       /\ (updOutcome = "raised" /\ updPc # "invalid_version")
             => /\ \A n \in UpdatedBeforeFailure : writes[n] = 1
                /\ \A n \in Names \ UpdatedBeforeFailure : writes[n] = 0
                /\ \A n \in updQueue : hostFiles[n] = hostFiles0[n]
                /\ "updated_all" \notin updPrinted
                /\ containers <= Cardinality(UpdatedBeforeFailure) + 1
       /\ "updated_all" \in updPrinted
             => /\ updOutcome = "returned"
                /\ \A n \in updDirs : writes[n] = 1
       /\ updOutcome = "raised" => updPc \notin {"loop", "done"}

C23_Witness ==
    /\ updAll /\ ~updDry
    /\ updOutcome = "raised"
    /\ updPc = "call_failed"
    /\ \E n, m \in updDirs :
          /\ n # m
          /\ writes[n] = 1
          /\ writes[m] = 0
          /\ m = updCur

\* C24: security_scan builds and checks every overlay subdirectory, sums the
\* per-overlay issue counts and raises after the loop if and only if the sum
\* is positive; a failure of the build of an overlay aborts the scan at
\* once; without an overlays directory the scan passes.
C24_ScanChecksEveryOverlayBeforeRaising ==
    secOp = "security_scan" =>
       /\ (~secDirExists /\ secOutcome # "running")
             => secOutcome = "passed" /\ counts = <<>>
       /\ secOutcome \in {"passed", "raised_issues"}
             => /\ Len(counts) = Len(manifests)
                /\ security_issues = SumOfFileIssues(manifests)
                /\ (secOutcome = "raised_issues") <=> (security_issues > 0)
       /\ secOutcome = "raised_build"
             => /\ Len(counts) < Len(manifests)
                /\ secIdx = Len(counts) + 1
       /\ secOutcome = "running"
             => security_issues = SumOfFileIssues(SubSeq(manifests, 1, Len(counts)))

C24_Witness ==
    /\ secOp = "security_scan"
    /\ secOutcome = "raised_issues"
    /\ Len(manifests) = 2
    /\ counts = <<1, 0>>

(***************************************************************************)
(* SpecDocs: deploy_docs.  Versions and titles are character sequences, as *)
(* the stdout of poetry is; None stands for an argument left out.          *)
(***************************************************************************)
DocVersions == { None, <<"1", ".", "1", ".", "1">>, <<"1", ".", "1">> }

DocTitles == { None, <<"a">>, <<"1", ".", "1">> }

DocAliases == {"latest", "stable"}

DocPoetryOutputs ==
    { <<"1", ".", "1", ".", "1", "LF">>, <<"1", ".", "1", "-", "a", "LF">>, Fail }

\* A variant that titles an untitled deployment "a".
DocsTitleFixed(title, v) == IF title = None THEN <<"a">> ELSE title

\* Lines 969-971: the version is the title when none is given.
DocsTitle(title, v) == IF title = None THEN v ELSE title

\* The version deploy_docs works with once line 965 is passed.
DocsVersion == IF docVersion = None THEN Strip(docPoetry) ELSE docVersion

DeployCmd ==
    [cmd |-> "deploy", title |-> DocsTitle(docTitle, DocsVersion),
     version |-> DocsVersion, alias |-> docAlias]

SetDefaultCmd ==
    [cmd |-> "set-default", title |-> None, version |-> None, alias |-> docAlias]

InitDocs ==
    /\ docVersion \in DocVersions
    /\ docTitle \in DocTitles
    /\ docAlias \in DocAliases
    /\ docSetDefault \in BOOLEAN
    /\ docPoetry \in DocPoetryOutputs
    /\ docPc = "start"
    /\ docIssued = <<>>
    /\ docFailed = {}
    /\ docPrinted = {}
    /\ docOutcome = "running"
    /\ IdleVersion
    /\ IdleSec
    /\ IdleRun
    /\ IdleOps
    /\ IdleUpd
    /\ IdleVal

docEnv == <<docVersion, docTitle, docAlias, docSetDefault, docPoetry>>

notDocs == <<versionVars, secVars, runVars, opsVars, updVars, valVars>>

\* Lines 963-967: without a version, _get_project_version; its failure
\* leaves the operation.
DocsResolveVersion ==
    /\ docPc = "start"
    /\ IF docVersion = None /\ docPoetry = Fail
       THEN docOutcome' = "raised" /\ docPc' = "done"
       ELSE docPc' = "deploy" /\ UNCHANGED docOutcome
    /\ UNCHANGED <<docEnv, docIssued, docFailed, docPrinted, notDocs>>

\* Lines 981-999: mike deploy --update-aliases --title <title> <version>
\* <alias>; it succeeds or fails.
DocsDeploy ==
    /\ docPc = "deploy"
    /\ docIssued' = Append(docIssued, DeployCmd)
    /\ \E ok \in BOOLEAN :
          IF ok
          THEN /\ docPc' = IF docSetDefault THEN "set_default" ELSE "print"
               /\ UNCHANGED <<docFailed, docOutcome>>
          ELSE /\ docFailed' = docFailed \cup {Len(docIssued) + 1}
               /\ docOutcome' = "raised"
               /\ docPc' = "done"
    /\ UNCHANGED <<docEnv, docPrinted, notDocs>>

\* Lines 1001-1008: mike set-default <alias>.
DocsSetDefault ==
    /\ docPc = "set_default"
    /\ docIssued' = Append(docIssued, SetDefaultCmd)
    /\ \E ok \in BOOLEAN :
          IF ok
          THEN docPc' = "print" /\ UNCHANGED <<docFailed, docOutcome>>
          ELSE /\ docFailed' = docFailed \cup {Len(docIssued) + 1}
               /\ docOutcome' = "raised"
               /\ docPc' = "done"
    /\ UNCHANGED <<docEnv, docPrinted, notDocs>>

\* Lines 1010-1012: "Documentation deployed".
DocsFinish ==
    /\ docPc = "print"
    /\ docPrinted' = docPrinted \cup {"documentation_deployed"}
    /\ docOutcome' = "returned"
    /\ docPc' = "done"
    /\ UNCHANGED <<docEnv, docIssued, docFailed, notDocs>>

NextDocs ==
    \/ DocsResolveVersion
    \/ DocsDeploy
    \/ DocsSetDefault
    \/ DocsFinish

SpecDocs == InitDocs /\ [][NextDocs]_vars

\* The project version as pyproject.toml states it: poetry's line without
\* its line end.
ProjectVersion == SubSeq(docPoetry, 1, Len(docPoetry) - 1)

\* C25: deploy_docs uses the project version when no version is given and
\* the version as the title when no title is given; set-default is issued
\* only when set_default is true and only after the deploy command has
\* succeeded; "Documentation deployed" is printed only after every issued
\* command succeeded.
C25_DeployDocsDefaultsAndOrder ==
    docOutcome # "idle" =>
       /\ \A i \in 1..Len(docIssued) :
             docIssued[i].cmd = "deploy"
                => /\ i = 1
                   /\ docIssued[i].version
                        = (IF docVersion = None THEN ProjectVersion ELSE docVersion)
                   /\ docIssued[i].title
                        = (IF docTitle = None THEN docIssued[i].version ELSE docTitle)
                   /\ docIssued[i].alias = docAlias
       /\ \A i \in 1..Len(docIssued) :
             docIssued[i].cmd = "set-default"
                => /\ docSetDefault
                   /\ i = 2
                   /\ docIssued[1].cmd = "deploy"
                   /\ 1 \notin docFailed
                   /\ docIssued[i].alias = docAlias
       /\ "documentation_deployed" \in docPrinted
             => /\ docFailed = {}
                /\ docOutcome = "returned"
                /\ Len(docIssued) = (IF docSetDefault THEN 2 ELSE 1)
       /\ docFailed # {} => docOutcome = "raised"
       /\ Len(docIssued) <= 2

C25_Witness ==
    /\ docVersion = None
    /\ docTitle = None
    /\ docSetDefault
    /\ docOutcome = "returned"
    /\ Len(docIssued) = 2
    /\ docIssued[1].title = <<"1", ".", "1", "-", "a">>
    /\ "documentation_deployed" \in docPrinted

====
